---- MODULE Spec2Model ----
(***************************************************************************)
(* Session timeline engine of spectator (src/src/App.tsx): the JSONL       *)
(* record parser, the tool-use correlator and the file-history indexer,    *)
(* driven by the session page, which derives all three from the session    *)
(* text on every render; the line differ and the preview of a code block;  *)
(* the snapshot block with its backup fetches; the home page with its      *)
(* project tree, its session list and its selected project; the local      *)
(* import store; the loads of the session page; and the file-history       *)
(* route of the server (src/server.ts).                                    *)
(*                                                                         *)
(* A text is a sequence of characters.  A character is "\n", "\r", a junk  *)
(* character "x" (any character that is neither JSON nor a line break) or  *)
(* "json": one compact JSON document without line breaks, carried as the   *)
(* value JSON.parse gives for it.  A JS string-valued property is a TLA+   *)
(* string; Absent is JS undefined.                                         *)
(***************************************************************************)
EXTENDS Integers, Sequences, FiniteSets, TLC

VARIABLES
    text,              \* session?.text ?? '' of SessionPage
    pc,                \* "loading" until the session response is rendered
    entries,           \* useMemo(parseClaudeJsonl)
    toolUseLookup,     \* useMemo(buildToolUseLookup)
    fileHistoryIndex,  \* useMemo(buildFileHistoryIndex)
    toolResults,       \* the tool-result blocks the timeline shows
    snapshotRows,      \* the tracked-file rows of the snapshot blocks shown
    renders,           \* re-renders of the page since the text was loaded
    oldText,           \* previousText of a diff request
    newText,           \* currentText of a diff request
    diff,              \* computeDiff(previousText, currentText)
    diffShown,         \* the diff lines and the note the snapshot block shows
    code,              \* the text handed to a CodeBlock
    preview,           \* previewText(code, PREVIEW_LINE_LIMIT) and its note
    openKey,           \* FileHistorySnapshot: useState openKey
    openMode,          \* useState openMode
    contentCache,      \* useState contentCache
    diffCache,         \* useState diffCache
    loadingKeys,       \* useState loadingKeys
    errorCache,        \* useState errorCache
    calls,             \* the handleView / handleDiff calls awaiting their fetches
    fetchLog,          \* the outcomes of the fetches made so far, in order
    sessionsLoading,   \* Home: useState sessionsLoading
    homeSessions,      \* useState sessions: the listing of the configured roots
    localState,        \* App: useState localState, the local import store
    sessionSource,     \* useState sessionSource
    homeSortMode,      \* useState sortMode
    selectedProjectPath, \* useState selectedProjectPath
    activeSessions,    \* the session listings in use
    scopedSessions,    \* useMemo: the sessions of the selected project, sorted
    projectGroups,     \* useMemo(groupSessions(activeSessions, 'recent'))
    projectTree,       \* useMemo(buildProjectTree(projectGroups))
    projectQuery,      \* useState projectQuery
    filteredProjectTree, \* useMemo(filterProjectTree(projectTree, projectQuery))
    request,           \* server: the parameters of a file-history request
    status,            \* the status of the response, 0 before it
    readPath,          \* the path of the file the handler has read
    mounted,           \* SessionPage is mounted
    pageSession,       \* SessionPage: useState session
    pageError,         \* useState error
    pageLoading,       \* useState loading
    loads,             \* the load() calls that await their response
    started            \* the number of load() calls started

pageVars ==
    <<text, pc, entries, toolUseLookup, fileHistoryIndex, toolResults, snapshotRows,
      renders>>
diffVars == <<oldText, newText, diff, diffShown, code, preview>>
snapshotVars ==
    <<openKey, openMode, contentCache, diffCache, loadingKeys, errorCache, calls,
      fetchLog>>
homeVars ==
    <<sessionsLoading, homeSessions, localState, sessionSource, homeSortMode,
      selectedProjectPath, activeSessions, scopedSessions, projectGroups, projectTree,
      projectQuery, filteredProjectTree>>
serverVars == <<request, status, readPath>>
loadVars == <<mounted, pageSession, pageError, pageLoading, loads, started>>
vars == <<pageVars, diffVars, snapshotVars, homeVars, serverVars, loadVars>>

(***************************************************************************)
(* JavaScript values                                                       *)
(***************************************************************************)
Absent == "<undefined>"

Truthy(s) == s # Absent /\ s # ""

NoValue == [k |-> "none"]

NL == [c |-> "\n", v |-> NoValue]
CR == [c |-> "\r", v |-> NoValue]
Junk == [c |-> "x", v |-> NoValue]
Doc(value) == [c |-> "json", v |-> value]

\* JSON documents: null, a primitive (number, boolean, string), an array, an object
JNull == [k |-> "null"]
JPrim == [k |-> "prim"]
JArray == [k |-> "array"]

NoInput == [k |-> "undef", file_path |-> Absent, path |-> Absent]
Input(filePath, path) == [k |-> "object", file_path |-> filePath, path |-> path]

\* an element of a message content array
NullItem == [k |-> "null", type |-> Absent, id |-> Absent, name |-> Absent,
             input |-> NoInput, tool_use_id |-> Absent]
StringItem == [k |-> "string", type |-> Absent, id |-> Absent, name |-> Absent,
               input |-> NoInput, tool_use_id |-> Absent]
Item(type, id, name, input, toolUseId) ==
    [k |-> "object", type |-> type, id |-> id, name |-> name,
     input |-> input, tool_use_id |-> toolUseId]

\* message.content: undefined, null, a string, one object, or an array
NoContent == [k |-> "undef", s |-> Absent, items |-> <<>>]
NullContent == [k |-> "null", s |-> Absent, items |-> <<>>]
StringContent(s) == [k |-> "string", s |-> s, items |-> <<>>]
ObjectContent(item) == [k |-> "object", s |-> Absent, items |-> <<item>>]
ArrayContent(items) == [k |-> "array", s |-> Absent, items |-> items]

NoMessage == [k |-> "undef", id |-> Absent, role |-> Absent, timestamp |-> Absent,
              content |-> NoContent]
NullMessage == [k |-> "null", id |-> Absent, role |-> Absent, timestamp |-> Absent,
                content |-> NoContent]
Message(id, role, content) ==
    [k |-> "object", id |-> id, role |-> role, timestamp |-> Absent, content |-> content]

\* snapshot.trackedFileBackups: the (filePath, info) pairs in key order
NoSnapshot == [k |-> "undef", hasTracked |-> FALSE, tracked |-> <<>>]
Snapshot(tracked) == [k |-> "object", hasTracked |-> TRUE, tracked |-> tracked]

\* version is <<>> when the property is missing, <<n>> otherwise
BackupInfo(backupFileName, version, backupTime) ==
    [backupFileName |-> backupFileName, version |-> version, backupTime |-> backupTime]

Record(type, uuid, leafUuid, messageId, timestamp, message, snapshot) ==
    [k |-> "object", type |-> type, uuid |-> uuid, leafUuid |-> leafUuid,
     messageId |-> messageId, timestamp |-> timestamp, message |-> message,
     snapshot |-> snapshot]

\* property reads on a parsed value that is not null: a primitive or an array
\* has none of the properties
Prop(data, name) == IF data.k = "object" THEN data[name] ELSE Absent
MessageOf(data) == IF data.k = "object" THEN data.message ELSE NoMessage
SnapshotOf(data) == IF data.k = "object" THEN data.snapshot ELSE NoSnapshot

(***************************************************************************)
(* Record parser                                                           *)
(***************************************************************************)
SyntaxError == "Unexpected token in JSON"
TypeError == "Cannot read properties of null"
Throw == "<throw>"

StripCR(line) ==
    IF Len(line) > 0 /\ line[Len(line)].c = "\r"
    THEN SubSeq(line, 1, Len(line) - 1)
    ELSE line

\* text.split(/\r?\n/): a line ends at each "\n"; one "\r" right before it belongs
\* to the separator
RECURSIVE splitFrom(_, _, _)
splitFrom(t, i, cur) ==
    IF i > Len(t) THEN <<cur>>
    ELSE IF t[i].c = "\n" THEN <<StripCR(cur)>> \o splitFrom(t, i + 1, <<>>)
    ELSE splitFrom(t, i + 1, Append(cur, t[i]))

\* text.split("\n"): the "\r" of a CRLF break stays in the line
RECURSIVE splitLF(_, _, _)
splitLF(t, i, cur) ==
    IF i > Len(t) THEN <<cur>>
    ELSE IF t[i].c = "\n" THEN <<cur>> \o splitLF(t, i + 1, <<>>)
    ELSE splitLF(t, i + 1, Append(cur, t[i]))

SplitLinesKeepCR(t) == splitLF(t, 1, <<>>)

SplitLines(t) == splitFrom(t, 1, <<>>)

IsNonEmpty(line) == line # <<>>

FilterBoolean(lines) == SelectSeq(lines, IsNonEmpty)

\* JSON.parse: "\r" is insignificant whitespace; the rest must be one document
IsNotCR(ch) == ch.c # "\r"

JsonBody(line) == SelectSeq(line, IsNotCR)

IsValidJson(line) == Len(JsonBody(line)) = 1 /\ JsonBody(line)[1].c = "json"

JSONparse(line) == JsonBody(line)[1].v

ItemsOf(content) ==
    CASE content.k = "array" -> content.items
      [] content.k = "object" -> content.items
      [] content.k = "string" /\ content.s # "" -> <<StringItem>>
      [] OTHER -> <<>>

\* items.some(...): reading .type of a null item throws
RECURSIVE someTool(_, _)
someTool(items, i) ==
    IF i > Len(items) THEN "false"
    ELSE IF items[i].k = "null" THEN Throw
    ELSE IF items[i].type \in {"tool_use", "tool_result"} THEN "true"
    ELSE someTool(items, i + 1)

containsToolContent(content) == someTool(ItemsOf(content), 1)

detectCategory(data) ==
    LET type == Prop(data, "type") IN
    CASE type = "summary" -> "summary"
      [] type = "file-history-snapshot" -> "snapshot"
      [] type = "queue-operation" -> "queue"
      [] type = "system" -> "system"
      [] type \in {"assistant", "user"} ->
            LET found == containsToolContent(MessageOf(data).content) IN
            IF found = Throw THEN Throw
            ELSE IF found = "true" THEN "tool" ELSE "message"
      [] OTHER -> "other"

deriveRole(data) ==
    IF Truthy(MessageOf(data).role) THEN MessageOf(data).role
    ELSE IF Truthy(Prop(data, "type")) THEN Prop(data, "type")
    ELSE Absent

\* the leaf identifier is tried before the entry identifier
deriveIdLeafFirst(data, fallbackIndex) ==
    LET candidate ==
            IF Truthy(Prop(data, "leafUuid")) THEN Prop(data, "leafUuid")
            ELSE IF Truthy(Prop(data, "uuid")) THEN Prop(data, "uuid")
            ELSE IF Truthy(Prop(data, "messageId")) THEN Prop(data, "messageId")
            ELSE MessageOf(data).id
    IN IF Truthy(candidate) THEN candidate ELSE "entry-" \o ToString(fallbackIndex)

deriveId(data, fallbackIndex) ==
    LET candidate ==
            IF Truthy(Prop(data, "uuid")) THEN Prop(data, "uuid")
            ELSE IF Truthy(Prop(data, "leafUuid")) THEN Prop(data, "leafUuid")
            ELSE IF Truthy(Prop(data, "messageId")) THEN Prop(data, "messageId")
            ELSE MessageOf(data).id
    IN IF Truthy(candidate) THEN candidate ELSE "entry-" \o ToString(fallbackIndex)

ValidDates == {"2024-05-01T10:00:00Z"}

\* new Date(value).toLocaleString(), undefined for a falsy or unparsable value
formatTimestamp(value) ==
    IF ~Truthy(value) THEN Absent
    ELSE IF value \notin ValidDates THEN Absent
    ELSE "5/1/2024, 10:00:00 AM"

ErrorEntry(line, index, message) ==
    [id |-> "error-" \o ToString(index), raw |-> line, hasData |-> FALSE,
     data |-> NoValue, error |-> message, category |-> "error",
     role |-> Absent, timestamp |-> Absent]

\* the catch branch keeps the value JSON.parse returned
parseLineKeepingData(line, index) ==
    IF ~IsValidJson(line) THEN ErrorEntry(line, index, SyntaxError)
    ELSE
        LET data == JSONparse(line) IN
        IF data.k = "null" \/ detectCategory(data) = Throw
        THEN [ErrorEntry(line, index, TypeError) EXCEPT !.hasData = TRUE, !.data = data]
        ELSE [id |-> deriveId(data, index), raw |-> line, hasData |-> TRUE,
              data |-> data, error |-> Absent, category |-> detectCategory(data),
              role |-> deriveRole(data),
              timestamp |-> formatTimestamp(IF Prop(data, "timestamp") # Absent
                                            THEN Prop(data, "timestamp")
                                            ELSE MessageOf(data).timestamp)]

\* the callback of .map((line, index) => ...); index is 0-based
parseLine(line, index) ==
    IF ~IsValidJson(line) THEN ErrorEntry(line, index, SyntaxError)
    ELSE
        LET data == JSONparse(line) IN
        IF data.k = "null" THEN ErrorEntry(line, index, TypeError)
        ELSE IF detectCategory(data) = Throw THEN ErrorEntry(line, index, TypeError)
        ELSE
            LET stamp == IF Prop(data, "timestamp") # Absent
                         THEN Prop(data, "timestamp")
                         ELSE MessageOf(data).timestamp
            IN [id |-> deriveId(data, index), raw |-> line, hasData |-> TRUE,
                data |-> data, error |-> Absent, category |-> detectCategory(data),
                role |-> deriveRole(data), timestamp |-> formatTimestamp(stamp)]

\* the fallback index counts the lines parsed so far, not the lines
RECURSIVE parsedBefore(_, _)
parsedBefore(lines, i) ==
    IF i <= 1 THEN 0
    ELSE parsedBefore(lines, i - 1) + (IF IsValidJson(lines[i - 1]) THEN 1 ELSE 0)

parseCountingParsed(t) ==
    IF t = <<>> THEN <<>>
    ELSE LET lines == FilterBoolean(SplitLines(t))
         IN [i \in 1..Len(lines) |->
                IF IsValidJson(lines[i])
                THEN parseLine(lines[i], parsedBefore(lines, i))
                ELSE parseLine(lines[i], i - 1)]

parseClaudeJsonl(t) ==
    IF t = <<>> THEN <<>>
    ELSE LET lines == FilterBoolean(SplitLines(t))
         IN [i \in 1..Len(lines) |-> parseLine(lines[i], i - 1)]

(***************************************************************************)
(* Tool-use correlator                                                     *)
(***************************************************************************)
EmptyMap == [x \in {} |-> NoValue]

Put(map, key, value) ==
    [x \in (DOMAIN map) \cup {key} |-> IF x = key THEN value ELSE map[x]]

ToolUseInfo(item) == [id |-> item.id, name |-> item.name, input |-> item.input]

\* content of entry.data?.message, empty for an entry without data
EntryItems(entry) ==
    IF entry.hasData THEN ItemsOf(MessageOf(entry.data).content) ELSE <<>>

\* an id already in the lookup is not overwritten
RECURSIVE recordFirstToolUses(_, _, _)
recordFirstToolUses(lookup, items, i) ==
    IF i > Len(items) THEN lookup
    ELSE IF items[i].k # "object" THEN recordFirstToolUses(lookup, items, i + 1)
    ELSE IF items[i].type # "tool_use" THEN recordFirstToolUses(lookup, items, i + 1)
    ELSE IF ~Truthy(items[i].id) THEN recordFirstToolUses(lookup, items, i + 1)
    ELSE IF items[i].id \in DOMAIN lookup THEN recordFirstToolUses(lookup, items, i + 1)
    ELSE recordFirstToolUses(Put(lookup, items[i].id, ToolUseInfo(items[i])), items, i + 1)

\* the inner items.forEach of buildToolUseLookup
RECURSIVE recordToolUses(_, _, _)
recordToolUses(lookup, items, i) ==
    IF i > Len(items) THEN lookup
    ELSE IF items[i].k # "object" THEN recordToolUses(lookup, items, i + 1)
    ELSE IF items[i].type # "tool_use" THEN recordToolUses(lookup, items, i + 1)
    ELSE IF ~Truthy(items[i].id) THEN recordToolUses(lookup, items, i + 1)
    ELSE recordToolUses(Put(lookup, items[i].id, ToolUseInfo(items[i])), items, i + 1)

\* one streaming pass: scanning stops at the first entry that holds a tool_result
RECURSIVE scanUntilResult(_, _, _)
scanUntilResult(lookup, es, e) ==
    IF e > Len(es) THEN lookup
    ELSE IF \E j \in 1..Len(EntryItems(es[e])) : EntryItems(es[e])[j].type = "tool_result"
    THEN lookup
    ELSE scanUntilResult(recordToolUses(lookup, EntryItems(es[e]), 1), es, e + 1)

RECURSIVE scanToolUses(_, _, _)
scanToolUses(lookup, es, e) ==
    IF e > Len(es) THEN lookup
    ELSE scanToolUses(recordToolUses(lookup, EntryItems(es[e]), 1), es, e + 1)

buildToolUseLookup(es) == scanToolUses(EmptyMap, es, 1)

NoBlock == [shown |-> FALSE, toolName |-> Absent, filePath |-> Absent]

\* the tool_result branch of renderClaudeContent: header name and file chip
resolveToolResult(item, lookup) ==
    LET key == IF item.tool_use_id = Absent THEN "" ELSE item.tool_use_id
        found == key \in DOMAIN lookup
        toolName == IF found /\ lookup[key].name # Absent THEN lookup[key].name ELSE "Tool"
        input == IF found THEN lookup[key].input ELSE NoInput
        filePath == IF Truthy(input.file_path) THEN input.file_path ELSE input.path
    IN [shown |-> TRUE, toolName |-> toolName,
        filePath |-> IF Truthy(filePath) THEN filePath ELSE Absent]

renderItem(item, lookup) ==
    IF item.type = "tool_result" THEN resolveToolResult(item, lookup) ELSE NoBlock

\* renderEntryBody down to renderClaudeContent: only user and assistant records
\* reach it, a string content is rendered as text
RenderedItems(entry) ==
    IF ~entry.hasData THEN <<>>
    ELSE IF Prop(entry.data, "type") \notin {"assistant", "user"} THEN <<>>
    ELSE IF MessageOf(entry.data).content.k = "string" THEN <<>>
    ELSE ItemsOf(MessageOf(entry.data).content)

renderClaudeContent(entry, lookup) ==
    [j \in 1..Len(RenderedItems(entry)) |-> renderItem(RenderedItems(entry)[j], lookup)]

\* items.map reads .type of every item: a null item throws during render
RenderThrows(es) ==
    \E e \in 1..Len(es) : \E j \in 1..Len(RenderedItems(es[e])) :
        RenderedItems(es[e])[j].k = "null"

\* the timeline cards; user and assistant records are of category message or
\* tool, which every filter setting that shows tool results includes
renderTimeline(es, lookup) ==
    IF RenderThrows(es) THEN [crashed |-> TRUE, blocks |-> <<>>]
    ELSE [crashed |-> FALSE,
          blocks |-> [e \in 1..Len(es) |-> renderClaudeContent(es[e], lookup)]]

(***************************************************************************)
(* File-history indexer                                                    *)
(***************************************************************************)
Number(version) == IF version = <<>> THEN 0 ELSE version[1]

BackupKey(filePath, backupFileName, version) ==
    filePath \o "@" \o backupFileName \o "@" \o ToString(version)

FileBackupInfo(filePath, info) ==
    [filePath |-> filePath, backupFileName |-> info.backupFileName,
     version |-> Number(info.version), backupTime |-> info.backupTime]

\* no key is ever taken as seen
NeverSeen(seen, key) == FALSE

IsSeen(seen, key) == key \in seen

\* the Object.entries(tracked).forEach of buildFileHistoryIndex; acc is the pair
\* of the index and the seen set
RECURSIVE indexTracked(_, _, _)
indexTracked(acc, tracked, i) ==
    IF i > Len(tracked) THEN acc
    ELSE
        LET filePath == tracked[i].filePath
            info == tracked[i].info
            key == BackupKey(filePath, info.backupFileName, Number(info.version))
            list == IF filePath \in DOMAIN acc.index THEN acc.index[filePath] ELSE <<>>
        IN IF ~Truthy(info.backupFileName) THEN indexTracked(acc, tracked, i + 1)
           ELSE IF IsSeen(acc.seen, key) THEN indexTracked(acc, tracked, i + 1)
           ELSE indexTracked(
                    [index |-> Put(acc.index, filePath,
                                   Append(list, FileBackupInfo(filePath, info))),
                     seen |-> acc.seen \cup {key}],
                    tracked, i + 1)

TrackedOf(entry) ==
    IF ~entry.hasData THEN <<>>
    ELSE IF Prop(entry.data, "type") # "file-history-snapshot" THEN <<>>
    ELSE IF ~SnapshotOf(entry.data).hasTracked THEN <<>>
    ELSE SnapshotOf(entry.data).tracked

RECURSIVE scanSnapshots(_, _, _)
scanSnapshots(acc, es, e) ==
    IF e > Len(es) THEN acc
    ELSE scanSnapshots(indexTracked(acc, TrackedOf(es[e]), 1), es, e + 1)

\* list.sort((a, b) => a.version - b.version): stable, ascending by version
RECURSIVE insertByVersion(_, _)
insertByVersion(sorted, item) ==
    IF sorted = <<>> THEN <<item>>
    ELSE IF sorted[Len(sorted)].version <= item.version THEN Append(sorted, item)
    ELSE Append(insertByVersion(SubSeq(sorted, 1, Len(sorted) - 1), item),
                sorted[Len(sorted)])

RECURSIVE sortFrom(_, _, _)
sortFrom(sorted, list, i) ==
    IF i > Len(list) THEN sorted
    ELSE sortFrom(insertByVersion(sorted, list[i]), list, i + 1)

sortByVersion(list) == sortFrom(<<>>, list, 1)

buildFileHistoryIndex(es) ==
    LET index == scanSnapshots([index |-> EmptyMap, seen |-> {}], es, 1).index
    IN [p \in DOMAIN index |-> sortByVersion(index[p])]

Undefined == [undefined |-> TRUE]

\* the first candidate instead of the last
findEarliestBackup(filePath, version, index) ==
    LET list == IF filePath \in DOMAIN index THEN index[filePath] ELSE <<>>
        candidates == SelectSeq(list, LAMBDA item : item.version < version)
    IN IF Len(list) = 0 \/ version = 0 THEN Undefined
       ELSE IF Len(candidates) = 0 THEN Undefined
       ELSE candidates[1]

findPreviousBackup(filePath, version, index) ==
    LET list == IF filePath \in DOMAIN index THEN index[filePath] ELSE <<>>
        candidates == SelectSeq(list, LAMBDA item : item.version < version)
    IN IF Len(list) = 0 \/ version = 0 THEN Undefined
       ELSE IF Len(candidates) = 0 THEN Undefined
       ELSE candidates[Len(candidates)]

\* the entries.map of FileHistorySnapshot: one row per tracked file
snapshotRow(filePath, info, index) ==
    [filePath |-> filePath,
     backupFileName |-> info.backupFileName,
     version |-> Number(info.version),
     fileKey |-> filePath \o "@" \o ToString(Number(info.version)),
     previous |-> findPreviousBackup(filePath, Number(info.version), index)]

renderSnapshots(es, index) ==
    [e \in 1..Len(es) |->
        [i \in 1..Len(TrackedOf(es[e])) |->
            snapshotRow(TrackedOf(es[e])[i].filePath, TrackedOf(es[e])[i].info, index)]]

(***************************************************************************)
(* Session page                                                            *)
(***************************************************************************)
MaxRenders == 1

InitPage(texts) ==
    /\ text \in texts
    /\ pc = "loading"
    /\ entries = <<>>
    /\ toolUseLookup = EmptyMap
    /\ fileHistoryIndex = EmptyMap
    /\ toolResults = [crashed |-> FALSE, blocks |-> <<>>]
    /\ snapshotRows = <<>>
    /\ renders = 0

\* the session response arrives: setSession, then the three useMemo
\* derivations and the timeline of the same render
Render ==
    /\ pc = "loading"
    /\ pc' = "ready"
    /\ entries' = parseClaudeJsonl(text)
    /\ toolUseLookup' = buildToolUseLookup(entries')
    /\ fileHistoryIndex' = buildFileHistoryIndex(entries')
    /\ toolResults' = renderTimeline(entries', toolUseLookup')
    /\ snapshotRows' = renderSnapshots(entries', fileHistoryIndex')
    /\ UNCHANGED <<text, renders, diffVars, snapshotVars, homeVars,
                   serverVars, loadVars>>

\* a later render of the same session: the derivations run again on the
\* entries already held
Rerender ==
    /\ pc = "ready"
    /\ renders < MaxRenders
    /\ renders' = renders + 1
    /\ toolUseLookup' = buildToolUseLookup(entries)
    /\ fileHistoryIndex' = buildFileHistoryIndex(entries)
    /\ toolResults' = renderTimeline(entries, toolUseLookup')
    /\ snapshotRows' = renderSnapshots(entries, fileHistoryIndex')
    /\ UNCHANGED <<text, pc, entries, diffVars, snapshotVars, homeVars,
                   serverVars, loadVars>>

Next == Render \/ Rerender

(***************************************************************************)
(* Session texts                                                           *)
(***************************************************************************)
MaxTextLen == 5
MaxPrefixLines == 2
MaxItems == 2
MaxEntries == 3
MaxSnapshots == 2

SeqsUpTo(S, n) == UNION {[1..m -> S] : m \in 0..n}

RECURSIVE Flatten(_)
Flatten(ss) == IF ss = <<>> THEN <<>> ELSE ss[1] \o Flatten(Tail(ss))

\* the lines joined by "\n"
RECURSIVE JoinLines(_)
JoinLines(ls) ==
    IF ls = <<>> THEN <<>>
    ELSE IF Len(ls) = 1 THEN ls[1]
    ELSE ls[1] \o <<NL>> \o JoinLines(Tail(ls))

PlainRecord(type, message) ==
    Record(type, Absent, Absent, Absent, Absent, message, NoSnapshot)

EmptyRecord == PlainRecord(Absent, NoMessage)
UserRecord ==
    Record("user", "u1", Absent, Absent, "2024-05-01T10:00:00Z",
           Message(Absent, "user", StringContent("hi")), NoSnapshot)

\* texts over line breaks, junk and a few documents
Alphabet == {NL, CR, Junk, Doc(EmptyRecord), Doc(UserRecord), Doc(JNull)}
Texts == SeqsUpTo(Alphabet, MaxTextLen)

\* one record of any shape after a few blank, malformed or plain lines
TextItem == Item("text", Absent, Absent, NoInput, Absent)
ToolUseItem == Item("tool_use", "t1", "Read", Input("/a.ts", Absent), Absent)
ToolResultItem == Item("tool_result", Absent, Absent, NoInput, "t1")
ContentItems == {TextItem, ToolUseItem, ToolResultItem, NullItem, StringItem}
Contents ==
    {NoContent, NullContent, StringContent(""), StringContent("hi")}
        \cup {ObjectContent(i) : i \in {TextItem, ToolUseItem, ToolResultItem}}
        \cup {ArrayContent(l) : l \in SeqsUpTo(ContentItems, MaxItems)}
Types ==
    {"summary", "file-history-snapshot", "queue-operation", "system",
     "assistant", "user", "progress", Absent}
ShapeRecords ==
    {PlainRecord(t, m) :
        t \in Types,
        m \in {NoMessage, NullMessage} \cup {Message(Absent, Absent, c) : c \in Contents}}
IdMessages ==
    {NoMessage, NullMessage}
        \cup {Message(i, Absent, c) :
                i \in {Absent, "", "i1"},
                c \in {NoContent, ArrayContent(<<NullItem>>)}}
IdRecords ==
    {Record("user", u, l, m, Absent, msg, NoSnapshot) :
        u \in {Absent, "", "u1"}, l \in {Absent, "", "l1"},
        m \in {Absent, "", "m1"}, msg \in IdMessages}
ClassifyDocs == {JNull, JPrim, JArray} \cup ShapeRecords \cup IdRecords
PrefixLines == {<<NL>>, <<Junk, NL>>, <<Doc(EmptyRecord), CR, NL>>}
ClassifyTexts ==
    {Flatten(p) \o <<Doc(d)>> :
        p \in SeqsUpTo(PrefixLines, MaxPrefixLines), d \in ClassifyDocs}

\* tool invocations and results spread over the entries
Use1Read == Item("tool_use", "t1", "Read", Input("/a.ts", Absent), Absent)
Use1Grep == Item("tool_use", "t1", "Grep", Input(Absent, "/src"), Absent)
Use1Bare == Item("tool_use", "t1", Absent, NoInput, Absent)
UseNoId == Item("tool_use", Absent, "Bash", NoInput, Absent)
Result1 == Item("tool_result", Absent, Absent, NoInput, "t1")
Result2 == Item("tool_result", Absent, Absent, NoInput, "t2")
ToolUses == {Use1Read, Use1Grep, Use1Bare, UseNoId}
ToolItemLists ==
    {<<>>} \cup {<<i>> : i \in ToolUses \cup {Result1, Result2}}
        \cup {<<i, j>> : i \in {Use1Read, Use1Grep}, j \in {Use1Read, Use1Grep}}
        \cup {<<Result1, i>> : i \in {Use1Read, Use1Bare}}
        \cup {<<i, Result1>> : i \in {Use1Read, Use1Bare}}
ToolLines ==
    {<<Doc(PlainRecord("assistant", Message(Absent, Absent, ArrayContent(l))))>> :
        l \in ToolItemLists}
        \cup {<<Junk>>,
              <<Doc(PlainRecord("progress",
                                Message(Absent, Absent, ArrayContent(<<Use1Grep>>))))>>}
ToolTexts == {JoinLines(ls) : ls \in SeqsUpTo(ToolLines, MaxEntries)}

\* file-history snapshots; "@" occurs in paths and in backup names
Paths == {"a", "a@b"}
BackupInfos ==
    {BackupInfo(n, <<v>>, Absent) : n \in {"b", "b@b"}, v \in {1, 2}}
        \cup {BackupInfo(Absent, <<1>>, Absent), BackupInfo("b", <<>>, Absent)}
Tracked(p, i) == [filePath |-> p, info |-> i]
TrackedLists ==
    {<<>>} \cup {<<Tracked(p, i)>> : p \in Paths, i \in BackupInfos}
        \cup UNION {{<<Tracked(p, i), Tracked(q, j)>> :
                        q \in Paths \ {p}, i \in BackupInfos, j \in BackupInfos} :
                     p \in Paths}
SnapshotRecord(type, tracked) ==
    Record(type, Absent, Absent, Absent, Absent, NoMessage, Snapshot(tracked))
SnapshotLines ==
    {<<Doc(SnapshotRecord("file-history-snapshot", t))>> : t \in TrackedLists}
        \cup {<<Doc(SnapshotRecord("user", <<Tracked("a", BackupInfo("b", <<2>>, Absent))>>))>>,
              <<Doc(Record("file-history-snapshot", Absent, Absent, Absent, Absent,
                           NoMessage, NoSnapshot))>>}
SnapshotTexts == {JoinLines(ls) : ls \in SeqsUpTo(SnapshotLines, MaxSnapshots)}

\* one file whose backups are tracked at versions 0 to 3, in any order
MaxBackups == 3
BackupLines ==
    {<<Doc(SnapshotRecord("file-history-snapshot", <<Tracked("a", BackupInfo(n, v, Absent))>>))>> :
        n \in {"b", Absent}, v \in {<<>>, <<1>>, <<2>>, <<3>>}}
BackupTexts == {JoinLines(ls) : ls \in SeqsUpTo(BackupLines, MaxBackups)}

(***************************************************************************)
(* Backup differ and code preview                                          *)
(***************************************************************************)
PREVIEW_LINE_LIMIT == 10

\* lines[i] of a JS array of strings: undefined past the end
NoLine == <<[c |-> Absent, v |-> NoValue]>>
\* an empty line counts as no line
ElementIfTruthy(lines, i) ==
    IF i <= Len(lines) /\ lines[i] # <<>> THEN lines[i] ELSE NoLine

ElementAt(lines, i) == IF i <= Len(lines) THEN lines[i] ELSE NoLine

DiffLine(type, content) == [type |-> type, content |-> content]

Max(a, b) == IF a >= b THEN a ELSE b
Min(a, b) == IF a <= b THEN a ELSE b

\* the loop of computeDiff from line i on
RECURSIVE diffFrom(_, _, _, _)
diffFrom(oldLines, newLines, maxLines, i) ==
    IF i > maxLines THEN <<>>
    ELSE
        LET oldLine == ElementAt(oldLines, i)
            newLine == ElementAt(newLines, i)
        IN IF oldLine = newLine /\ oldLine # NoLine
           THEN <<DiffLine("context", oldLine)>> \o diffFrom(oldLines, newLines, maxLines, i + 1)
           ELSE (IF oldLine # NoLine THEN <<DiffLine("removed", oldLine)>> ELSE <<>>)
                \o (IF newLine # NoLine THEN <<DiffLine("added", newLine)>> ELSE <<>>)
                \o diffFrom(oldLines, newLines, maxLines, i + 1)

\* the loop stops at the shorter text
computeDiffCommonLines(old, new) ==
    LET oldLines == splitLF(old, 1, <<>>)
        newLines == splitLF(new, 1, <<>>)
    IN diffFrom(oldLines, newLines, Min(Len(oldLines), Len(newLines)), 1)

computeDiff(old, new) ==
    LET oldLines == splitLF(old, 1, <<>>)
        newLines == splitLF(new, 1, <<>>)
    IN diffFrom(oldLines, newLines, Max(Len(oldLines), Len(newLines)), 1)

\* text.replace(/\r\n/g, '\n')
RECURSIVE replaceCRLF(_, _)
replaceCRLF(t, i) ==
    IF i > Len(t) THEN <<>>
    ELSE IF t[i] = CR /\ i < Len(t) /\ t[i + 1] = NL THEN <<NL>> \o replaceCRLF(t, i + 2)
    ELSE <<t[i]>> \o replaceCRLF(t, i + 1)

\* one line more than the limit is let through
previewTextOneMore(t, limit) ==
    IF t = <<>> THEN [text |-> <<>>, totalLines |-> 0, truncated |-> FALSE, limit |-> limit]
    ELSE
        LET normalized == replaceCRLF(t, 1)
            split == splitLF(normalized, 1, <<>>)
            lines == IF normalized[Len(normalized)] = NL
                     THEN SubSeq(split, 1, Len(split) - 1) ELSE split
            totalLines == Len(lines)
            truncated == totalLines > limit + 1
            previewLines == IF truncated THEN SubSeq(lines, 1, limit + 1) ELSE lines
        IN [text |-> JoinLines(previewLines), totalLines |-> totalLines,
            truncated |-> truncated, limit |-> limit]

previewText(t, limit) ==
    IF t = <<>> THEN [text |-> <<>>, totalLines |-> 0, truncated |-> FALSE, limit |-> limit]
    ELSE
        LET normalized == replaceCRLF(t, 1)
            split == splitLF(normalized, 1, <<>>)
            lines == IF normalized[Len(normalized)] = NL
                     THEN SubSeq(split, 1, Len(split) - 1) ELSE split
            totalLines == Len(lines)
            truncated == totalLines > limit
            previewLines == IF truncated THEN SubSeq(lines, 1, limit) ELSE lines
        IN [text |-> JoinLines(previewLines), totalLines |-> totalLines,
            truncated |-> truncated, limit |-> limit]

\* "Showing first {limit} of {total} lines."
Note(limit, total) == [limit |-> limit, total |-> total]
NoNote == [limit |-> 0, total |-> 0]

\* what a CodeBlock shows of its code
CodeBlock(c) ==
    LET p == previewText(c, PREVIEW_LINE_LIMIT)
    IN [text |-> p.text,
        note |-> IF p.truncated THEN Note(p.limit, p.totalLines) ELSE NoNote]

\* what the diff block of a snapshot row shows of its diff
DiffBlock(d) ==
    [lines |-> SubSeq(d, 1, Min(Len(d), PREVIEW_LINE_LIMIT)),
     note |-> IF Len(d) > PREVIEW_LINE_LIMIT THEN Note(PREVIEW_LINE_LIMIT, Len(d))
              ELSE NoNote]

\* handleDiff once both texts are there: the diff is computed, stored and shown
ComputeDiff ==
    /\ diff = <<>>
    /\ oldText # <<>> /\ newText # <<>>
    /\ diff' = computeDiff(oldText, newText)
    /\ diffShown' = DiffBlock(diff')
    /\ UNCHANGED <<oldText, newText, code, preview, pageVars, snapshotVars, homeVars,
                   serverVars, loadVars>>

\* a CodeBlock is rendered for the code
ShowCode ==
    /\ preview = <<>>
    /\ preview' = CodeBlock(code)
    /\ UNCHANGED <<oldText, newText, diff, diffShown, code, pageVars, snapshotVars, homeVars,
                   serverVars, loadVars>>

NextDiff == ComputeDiff \/ ShowCode

\* no session page is shown
NoPage ==
    /\ text = <<>> /\ pc = "none" /\ entries = <<>>
    /\ toolUseLookup = EmptyMap /\ fileHistoryIndex = EmptyMap
    /\ toolResults = [crashed |-> FALSE, blocks |-> <<>>]
    /\ snapshotRows = <<>> /\ renders = 0

\* backup texts: short ones of any shape, and long ones of plain lines
MaxDiffLen == 3
MaxPreviewLines == 11
DiffTexts == SeqsUpTo({NL, CR, Junk}, MaxDiffLen)
RECURSIVE JoinWith(_, _)
JoinWith(ls, sep) ==
    IF ls = <<>> THEN <<>>
    ELSE IF Len(ls) = 1 THEN ls[1]
    ELSE ls[1] \o sep \o JoinWith(Tail(ls), sep)
LongTexts ==
    {JoinWith(ls, sep) \o end :
        ls \in SeqsUpTo({<<>>, <<Junk>>}, MaxPreviewLines),
        sep \in {<<NL>>, <<CR, NL>>}, end \in {<<>>, <<NL>>}}
PreviewTexts == DiffTexts \cup LongTexts
Repeat(line, n) == JoinLines([i \in 1..n |-> line])
LongPairs ==
    {<<Repeat(<<Junk>>, k), Repeat(l, m)>> :
        k \in 1..MaxPreviewLines, m \in 1..MaxPreviewLines, l \in {<<Junk>>, <<CR>>}}

(***************************************************************************)
(* Snapshot block: viewing and diffing the backups of its tracked files.   *)
(* The block modelled is the one of the last entry of the session.  A call *)
(* is a handleView or handleDiff invocation that awaits its fetches; the   *)
(* fetch log is the history of fetch starts and completions.               *)
(***************************************************************************)
sessionId == "s"

\* fetches started by one block
MaxFetches == 3

\* the bodies the server returns for a backup, the empty file among them
BackupContents == {<<>>, <<Junk>>, <<Junk, NL, CR>>}

\* `Failed to load backup (${response.status})`
FailedToLoad == "Failed to load backup (404)"

Get(map, key, default) == IF key \in DOMAIN map THEN map[key] ELSE default

PrevKey(fileKey) == fileKey \o "-prev"

BlockRows == IF snapshotRows = <<>> THEN <<>> ELSE snapshotRows[Len(snapshotRows)]

CallsMade == Cardinality({fetchLog[i].id : i \in 1..Len(fetchLog)})
FetchesMade == Cardinality({i \in 1..Len(fetchLog) : fetchLog[i].event = "start"})

Started(id, kind, key) ==
    [event |-> "start", id |-> id, kind |-> kind, key |-> key, text |-> <<>>]
Succeeded(id, kind, key, content) ==
    [event |-> "ok", id |-> id, kind |-> kind, key |-> key, text |-> content]
Failed(id, kind, key) ==
    [event |-> "fail", id |-> id, kind |-> kind, key |-> key, text |-> <<>>]

\* the error of the key survives the start of a fetch
keepError(errors, key) == errors

\* setErrorCache((current) => ({ ...current, [fileKey]: '' }))
clearError(errors, key) == Put(errors, key, "")

\* loadBackup after its fetch: if (content) setContentCache(...)
storeContent(cache, fileKey, content) ==
    IF IsNonEmpty(content) THEN Put(cache, fileKey, content) ELSE cache

\* handleDiff after both fetches: if (currentText && previousText) setDiffCache(...)
storeDiff(cache, fileKey, currentText, previousText) ==
    IF IsNonEmpty(currentText) /\ IsNonEmpty(previousText)
    THEN Put(cache, fileKey, computeDiff(previousText, currentText))
    ELSE cache

\* what a row of the block shows
RowView(row) ==
    LET fileKey == row.fileKey
        showView == openKey = fileKey /\ openMode = "view"
        showDiff == openKey = fileKey /\ openMode = "diff"
        isLoading == Get(loadingKeys, fileKey, FALSE) \/ Get(loadingKeys, PrevKey(fileKey), FALSE)
        error == Get(errorCache, fileKey, "")
    IN [viewDisabled |-> ~Truthy(row.backupFileName) \/ ~Truthy(sessionId),
        diffDisabled |-> row.previous = Undefined \/ ~Truthy(row.backupFileName)
                            \/ ~Truthy(sessionId),
        status |-> IF isLoading THEN "Loading backup..."
                   ELSE IF Truthy(error) THEN error ELSE "",
        isError |-> ~isLoading /\ Truthy(error),
        content |-> showView /\ IsNonEmpty(Get(contentCache, fileKey, <<>>)),
        diff |-> showDiff /\ fileKey \in DOMAIN diffCache,
        noDiff |-> showDiff /\ fileKey \notin DOMAIN diffCache /\ ~isLoading
                      /\ ~Truthy(error)]

Close ==
    /\ openKey' = Absent
    /\ openMode' = Absent
    /\ UNCHANGED <<contentCache, diffCache, loadingKeys, errorCache, calls, fetchLog>>

\* the View button of row r: handleView up to its await
ClickView(r) ==
    LET row == BlockRows[r]
        fileKey == row.fileKey
        id == CallsMade + 1
    IN /\ pc = "ready"
       /\ ~RowView(row).viewDisabled
       /\ IF openKey = fileKey /\ openMode = "view" THEN Close
          ELSE /\ openKey' = fileKey
               /\ openMode' = "view"
               /\ IF IsNonEmpty(Get(contentCache, fileKey, <<>>))
                  THEN UNCHANGED <<contentCache, diffCache, loadingKeys, errorCache,
                                   calls, fetchLog>>
                  ELSE /\ FetchesMade + 1 <= MaxFetches
                       /\ loadingKeys' = Put(loadingKeys, fileKey, TRUE)
                       /\ errorCache' = clearError(errorCache, fileKey)
                       /\ calls' = calls \cup
                            {[id |-> id, kind |-> "view", fileKey |-> fileKey,
                              pending |-> {fileKey}, texts |-> EmptyMap]}
                       /\ fetchLog' = Append(fetchLog, Started(id, "view", fileKey))
                       /\ UNCHANGED <<contentCache, diffCache>>
       /\ UNCHANGED <<pageVars, diffVars, homeVars,
                   serverVars, loadVars>>

\* the Diff button of row r: handleDiff up to its await
ClickDiff(r) ==
    LET row == BlockRows[r]
        fileKey == row.fileKey
        id == CallsMade + 1
    IN /\ pc = "ready"
       /\ ~RowView(row).diffDisabled
       /\ row.previous # Undefined
       /\ IF openKey = fileKey /\ openMode = "diff" THEN Close
          ELSE /\ openKey' = fileKey
               /\ openMode' = "diff"
               /\ IF fileKey \in DOMAIN diffCache
                  THEN UNCHANGED <<contentCache, diffCache, loadingKeys, errorCache,
                                   calls, fetchLog>>
                  ELSE /\ FetchesMade + 2 <= MaxFetches
                       /\ loadingKeys' =
                            Put(Put(loadingKeys, fileKey, TRUE), PrevKey(fileKey), TRUE)
                       /\ errorCache' =
                            clearError(clearError(errorCache, fileKey), PrevKey(fileKey))
                       /\ calls' = calls \cup
                            {[id |-> id, kind |-> "diff", fileKey |-> fileKey,
                              pending |-> {fileKey, PrevKey(fileKey)}, texts |-> EmptyMap]}
                       /\ fetchLog' = fetchLog \o <<Started(id, "diff", fileKey),
                                                     Started(id, "diff", PrevKey(fileKey))>>
                       /\ UNCHANGED <<contentCache, diffCache>>
       /\ UNCHANGED <<pageVars, diffVars, homeVars,
                   serverVars, loadVars>>

\* the rest of the handler once the fetch of key has returned content ('' after a
\* failure): loadBackup stores the content, handleDiff waits for both texts
Returned(call, key, content) ==
    LET texts == Put(call.texts, key, content)
        pending == call.pending \ {key}
    IN /\ calls' = (calls \ {call}) \cup
                        (IF pending = {} THEN {}
                         ELSE {[call EXCEPT !.pending = pending, !.texts = texts]})
       /\ contentCache' =
            IF call.kind = "view" THEN storeContent(contentCache, call.fileKey, content)
            ELSE contentCache
       /\ diffCache' =
            IF call.kind = "diff" /\ pending = {}
            THEN storeDiff(diffCache, call.fileKey, texts[call.fileKey],
                           texts[PrevKey(call.fileKey)])
            ELSE diffCache

\* fetchBackupContent: the response is ok and carries json.text
FetchOk(call, key, content) ==
    /\ call \in calls
    /\ key \in call.pending
    /\ loadingKeys' = Put(loadingKeys, key, FALSE)
    /\ fetchLog' = Append(fetchLog, Succeeded(call.id, call.kind, key, content))
    /\ Returned(call, key, content)
    /\ UNCHANGED <<openKey, openMode, errorCache, pageVars, diffVars, homeVars,
                   serverVars, loadVars>>

\* fetchBackupContent: the response is not ok or the request throws
FetchFail(call, key) ==
    /\ call \in calls
    /\ key \in call.pending
    /\ errorCache' = Put(errorCache, key, FailedToLoad)
    /\ loadingKeys' = Put(loadingKeys, key, FALSE)
    /\ fetchLog' = Append(fetchLog, Failed(call.id, call.kind, key))
    /\ Returned(call, key, <<>>)
    /\ UNCHANGED <<openKey, openMode, pageVars, diffVars, homeVars,
                   serverVars, loadVars>>

NextSnapshot ==
    \/ Render
    \/ \E r \in 1..Len(BlockRows) : ClickView(r)
    \/ \E r \in 1..Len(BlockRows) : ClickDiff(r)
    \/ \E call \in calls : \E key \in call.pending :
            \E content \in BackupContents : FetchOk(call, key, content)
    \/ \E call \in calls : \E key \in call.pending : FetchFail(call, key)

\* sessions whose last snapshot block tracks one file, with or without an
\* earlier backup and with or without a backup file of its own
BlockTexts ==
    {JoinLines(<<
        <<Doc(SnapshotRecord("file-history-snapshot",
                <<Tracked("a", BackupInfo("b1", <<1>>, Absent))>>))>>,
        <<Doc(SnapshotRecord("file-history-snapshot",
                <<Tracked("a", BackupInfo("b2", <<2>>, Absent))>>))>> >>),
     <<Doc(SnapshotRecord("file-history-snapshot",
                <<Tracked("a", BackupInfo("b1", <<1>>, Absent))>>))>>,
     <<Doc(SnapshotRecord("file-history-snapshot",
                <<Tracked("a", BackupInfo(Absent, <<1>>, Absent))>>))>>}

(***************************************************************************)
(* Home: session listings, project groups and the project tree.  A string  *)
(* of a listing is a sequence of one-character strings.                    *)
(***************************************************************************)
NoSlug == <<Absent>>

\* the letters, in the order of the collation
Letters ==
    <<"a", "b", "c", "d", "e", "f", "g", "h", "i", "j", "k", "l", "m", "n", "o", "p",
      "q", "r", "s", "t", "u", "v", "w", "x", "y", "z">>
Capitals ==
    <<"A", "B", "C", "D", "E", "F", "G", "H", "I", "J", "K", "L", "M", "N", "O", "P",
      "Q", "R", "S", "T", "U", "V", "W", "X", "Y", "Z">>

IndexIn(list, ch) == CHOOSE i \in 1..Len(list) : list[i] = ch

LowerOf == [ch \in {Capitals[i] : i \in 1..Len(Capitals)} |-> Letters[IndexIn(Capitals, ch)]]

Lower(ch) == IF ch \in DOMAIN LowerOf THEN LowerOf[ch] ELSE ch

toLowerCase(str) == [i \in 1..Len(str) |-> Lower(str[i])]

\* query.trim()
RECURSIVE trim(_)
trim(str) ==
    IF str = <<>> THEN str
    ELSE IF str[1] = " " THEN trim(Tail(str))
    ELSE IF str[Len(str)] = " " THEN trim(SubSeq(str, 1, Len(str) - 1))
    ELSE str

includes(str, part) ==
    \E i \in 0..(Len(str) - Len(part)) : SubSeq(str, i + 1, i + Len(part)) = part

\* str.split(sep) for a one-character separator
RECURSIVE splitOn(_, _, _, _)
splitOn(str, sep, i, cur) ==
    IF i > Len(str) THEN <<cur>>
    ELSE IF str[i] = sep THEN <<cur>> \o splitOn(str, sep, i + 1, <<>>)
    ELSE splitOn(str, sep, i + 1, Append(cur, str[i]))

\* parts.join(sep)
RECURSIVE join(_, _)
join(parts, sep) ==
    IF parts = <<>> THEN <<>>
    ELSE IF Len(parts) = 1 THEN parts[1]
    ELSE parts[1] \o <<sep>> \o join(Tail(parts), sep)

\* the first position where two strings differ under a key of their characters
CompareBy(a, b, Key(_)) ==
    LET differing == {i \in 1..Min(Len(a), Len(b)) : Key(a[i]) # Key(b[i])}
        first == CHOOSE i \in differing : \A j \in differing : i <= j
    IN IF differing = {}
       THEN (IF Len(a) < Len(b) THEN -1 ELSE IF Len(a) > Len(b) THEN 1 ELSE 0)
       ELSE IF Key(a[first]) < Key(b[first]) THEN -1 ELSE 1

\* punctuation sorts before the letters
Punctuation == <<" ", "_", "-", ".", "/">>

Collation == Punctuation \o Letters

RankOf == [ch \in {Collation[i] : i \in 1..Len(Collation)} |-> IndexIn(Collation, ch)]

LetterRank(ch) == RankOf[Lower(ch)]

CaseRank(ch) == IF Lower(ch) = ch THEN 0 ELSE 1

\* a.localeCompare(b): by letters first, lower case before upper case on a tie
localeCompare(a, b) ==
    IF CompareBy(a, b, LetterRank) # 0 THEN CompareBy(a, b, LetterRank)
    ELSE CompareBy(a, b, CaseRank)

\* Array.prototype.sort with a comparator under which a goes before b when
\* Before(a, b): the sort is stable
StableSort(list, Before(_, _)) ==
    LET rank(i) ==
            Cardinality({j \in 1..Len(list) :
                \/ Before(list[j], list[i])
                \/ ~Before(list[i], list[j]) /\ j < i}) + 1
    IN [r \in 1..Len(list) |-> list[CHOOSE i \in 1..Len(list) : rank(i) = r]]

humanizeProjectSlug(slug) ==
    IF slug # <<>> /\ slug[1] = "-"
    THEN [i \in 1..(Len(slug) - 1) |-> IF slug[i + 1] = "-" THEN "/" ELSE slug[i + 1]]
    ELSE slug

\* the listing of a session file of the project directory slug
toSessionListing(id, projectSlug, mtimeMs) ==
    [id |-> id, project |-> humanizeProjectSlug(projectSlug),
     projectSlug |-> projectSlug, mtimeMs |-> mtimeMs]

OlderFirst(a, b) == a.mtimeMs < b.mtimeMs
ByIdFirst(a, b) == localeCompare(a.id, b.id) < 0
NewerFirst(a, b) == a.mtimeMs > b.mtimeMs

sortSessions(sessions, sortMode) ==
    IF sortMode = "oldest" THEN StableSort(sessions, OlderFirst)
    ELSE IF sortMode = "name" THEN StableSort(sessions, ByIdFirst)
    ELSE StableSort(sessions, NewerFirst)

OlderGroupFirst(a, b) == a.latestMtime < b.latestMtime
ByProjectFirst(a, b) == localeCompare(a.project, b.project) < 0
NewerGroupFirst(a, b) == a.latestMtime > b.latestMtime

sortProjects(groups, sortMode) ==
    IF sortMode = "oldest" THEN StableSort(groups, OlderGroupFirst)
    ELSE IF sortMode = "name" THEN StableSort(groups, ByProjectFirst)
    ELSE StableSort(groups, NewerGroupFirst)

\* the groups are keyed by the label of the project
RECURSIVE groupFromByLabel(_, _, _)
groupFromByLabel(grouped, sessions, i) ==
    IF i > Len(sessions) THEN grouped
    ELSE
        LET session == sessions[i]
            existing == {k \in 1..Len(grouped) : grouped[k].project = session.project}
            k == CHOOSE k \in existing : TRUE
        IN IF existing # {}
           THEN groupFromByLabel([grouped EXCEPT ![k].sessions = Append(@, session),
                                                 ![k].latestMtime = Max(@, session.mtimeMs)],
                                 sessions, i + 1)
           ELSE groupFromByLabel(Append(grouped,
                                    [project |-> session.project,
                                     projectSlug |-> session.projectSlug,
                                     latestMtime |-> session.mtimeMs,
                                     sessions |-> <<session>>]),
                                 sessions, i + 1)

\* the sessions.forEach of groupSessions; grouped keeps the insertion order of
\* the Map
RECURSIVE groupFrom(_, _, _)
groupFrom(grouped, sessions, i) ==
    IF i > Len(sessions) THEN grouped
    ELSE
        LET session == sessions[i]
            existing == {k \in 1..Len(grouped) : grouped[k].projectSlug = session.projectSlug}
            k == CHOOSE k \in existing : TRUE
        IN IF existing # {}
           THEN groupFrom([grouped EXCEPT ![k].sessions = Append(@, session),
                                          ![k].latestMtime = Max(@, session.mtimeMs)],
                          sessions, i + 1)
           ELSE groupFrom(Append(grouped,
                            [project |-> session.project,
                             projectSlug |-> session.projectSlug,
                             latestMtime |-> session.mtimeMs,
                             sessions |-> <<session>>]),
                          sessions, i + 1)

groupSessions(sessions, sortMode) ==
    LET grouped == groupFrom(<<>>, sessions, 1)
    IN sortProjects([k \in 1..Len(grouped) |->
                        [grouped[k] EXCEPT !.sessions = sortSessions(@, sortMode)]],
                    sortMode)

\* group.project.split('/') without filter(Boolean)
SegmentsWithEmpty(project) == splitOn(project, "/", 1, <<>>)

\* group.project.split('/').filter(Boolean)
Segments(project) == FilterBoolean(splitOn(project, "/", 1, <<>>))

\* each group counts as one session
accumulateGroups(node, group) ==
    [node EXCEPT !.latestMtime = Max(@, group.latestMtime),
                 !.sessionsCount = @ + 1]

\* node.latestMtime = Math.max(...); node.sessionsCount += group.sessions.length
accumulate(node, group) ==
    [node EXCEPT !.latestMtime = Max(@, group.latestMtime),
                 !.sessionsCount = @ + Len(group.sessions)]

\* the segments.forEach of buildProjectTree from segment index on; acc holds
\* nodeMap and root, and a node holds the paths of its children
RECURSIVE walkSegments(_, _, _, _)
walkSegments(acc, group, segments, index) ==
    IF index > Len(segments) THEN acc
    ELSE
        LET path == join(SubSeq(segments, 1, index), "/")
            parent == join(SubSeq(segments, 1, index - 1), "/")
            isNew == path \notin DOMAIN acc.nodeMap
            node == IF isNew
                    THEN [id |-> path, name |-> segments[index], path |-> path,
                          latestMtime |-> group.latestMtime, sessionsCount |-> 0,
                          projectSlug |-> NoSlug, children |-> <<>>]
                    ELSE acc.nodeMap[path]
            updated == [accumulate(node, group) EXCEPT
                            !.projectSlug = IF index = Len(segments)
                                            THEN group.projectSlug ELSE @]
            linked == IF ~isNew THEN acc
                      ELSE IF index > 1
                      THEN [acc EXCEPT !.nodeMap[parent].children = Append(@, path)]
                      ELSE [acc EXCEPT !.root = Append(@, path)]
        IN walkSegments([linked EXCEPT !.nodeMap = Put(linked.nodeMap, path, updated)],
                        group, segments, index + 1)

RECURSIVE walkGroups(_, _, _)
walkGroups(acc, groups, g) ==
    IF g > Len(groups) THEN acc
    ELSE walkGroups(walkSegments(acc, groups[g], Segments(groups[g].project), 1),
                    groups, g + 1)

NodeFirst(a, b) ==
    \/ a.latestMtime > b.latestMtime
    \/ a.latestMtime = b.latestMtime /\ localeCompare(a.name, b.name) < 0

\* sortNodes, on the nodes the paths refer to
RECURSIVE sortNodes(_, _)
sortNodes(nodeMap, paths) ==
    StableSort([i \in 1..Len(paths) |->
                    [nodeMap[paths[i]] EXCEPT !.children = sortNodes(nodeMap, @)]],
               NodeFirst)

buildProjectTree(groups) ==
    LET built == walkGroups([nodeMap |-> EmptyMap, root |-> <<>>], groups, 1)
    IN sortNodes(built.nodeMap, built.root)

\* only the name of a node is searched
matchesName(node, trimmed) == includes(toLowerCase(node.name), trimmed)

matches(node, trimmed) ==
    \/ includes(toLowerCase(node.name), trimmed)
    \/ includes(toLowerCase(node.path), trimmed)

\* the filtered children are assigned to the node of the list itself
RECURSIVE filterNodesInPlace(_, _)
filterNodesInPlace(list, trimmed) ==
    IF list = <<>> THEN [source |-> <<>>, result |-> <<>>]
    ELSE
        LET node == list[1]
            children == filterNodesInPlace(node.children, trimmed)
            rest == filterNodesInPlace(Tail(list), trimmed)
            kept == [node EXCEPT !.children = children.result]
        IN [source |-> <<kept>> \o rest.source,
            result |-> (IF matches(node, trimmed) \/ Len(children.result) > 0
                        THEN <<kept>> ELSE <<>>) \o rest.result]

\* filterNodes: result is the list returned and source the list handed in as the
\* call leaves it
RECURSIVE filterNodes(_, _)
filterNodes(list, trimmed) ==
    IF list = <<>> THEN [source |-> <<>>, result |-> <<>>]
    ELSE
        LET node == list[1]
            children == filterNodes(node.children, trimmed)
            rest == filterNodes(Tail(list), trimmed)
        IN [source |-> <<[node EXCEPT !.children = children.source]>> \o rest.source,
            result |-> (IF matches(node, trimmed) \/ Len(children.result) > 0
                        THEN <<[node EXCEPT !.children = children.result]>>
                        ELSE <<>>) \o rest.result]

filterProjectTree(nodes, query) ==
    LET trimmed == toLowerCase(trim(query))
    IN IF trimmed = <<>> THEN [source |-> nodes, result |-> nodes]
       ELSE filterNodes(nodes, trimmed)

startsWith(str, prefix) ==
    Len(str) >= Len(prefix) /\ SubSeq(str, 1, Len(prefix)) = prefix

endsWith(str, suffix) ==
    Len(str) >= Len(suffix)
    /\ SubSeq(str, Len(str) - Len(suffix) + 1, Len(str)) = suffix

\* any label that begins with the characters of the path is in the project
isSessionInProjectByPrefix(session, projectPath) ==
    startsWith(session.project, projectPath)

isSessionInProject(session, projectPath) ==
    \/ session.project = projectPath
    \/ startsWith(session.project, projectPath \o <<"/">>)

\* the sessions array itself is sorted
sortInPlace(sessions, sortMode) ==
    [source |-> sortSessions(sessions, sortMode),
     result |-> sortSessions(sessions, sortMode)]

\* sortSessions as its caller sees it: result is the array returned and source
\* the array handed in as the call leaves it
sortCopy(sessions, sortMode) ==
    [source |-> sessions, result |-> sortSessions(sessions, sortMode)]

(***************************************************************************)
(* The local import store of App.  A File is its name, its                 *)
(* webkitRelativePath and its lastModified.                                *)
(***************************************************************************)
Jsonl == <<".", "j", "s", "o", "n", "l">>
LocalImports == <<"l", "o", "c", "a", "l", "-", "i", "m", "p", "o", "r", "t", "s">>
ProtoKey == <<"_", "_", "p", "r", "o", "t", "o", "_", "_">>
Null == [null |-> TRUE]

File(name, webkitRelativePath, lastModified) ==
    [name |-> name, webkitRelativePath |-> webkitRelativePath,
     lastModified |-> lastModified]

isJsonlFile(file) == endsWith(toLowerCase(file.name), Jsonl)

\* filename.replace(/\.jsonl$/i, '')
stripJsonl(filename) ==
    IF endsWith(toLowerCase(filename), Jsonl)
    THEN SubSeq(filename, 1, Len(filename) - Len(Jsonl))
    ELSE filename

toLocalSessionListing(file) ==
    IF ~isJsonlFile(file) THEN Null
    ELSE
        LET path == IF file.webkitRelativePath # <<>>
                    THEN file.webkitRelativePath ELSE file.name
            segments == FilterBoolean(splitOn(path, "/", 1, <<>>))
            filename == IF segments # <<>> THEN segments[Len(segments)] ELSE file.name
            projectSlug == IF Len(segments) > 1
                           THEN segments[Len(segments) - 1] ELSE LocalImports
        IN [id |-> stripJsonl(filename), path |-> path,
            project |-> humanizeProjectSlug(projectSlug),
            projectSlug |-> projectSlug, mtimeMs |-> file.lastModified,
            source |-> "local"]

\* object[key] = value on a plain object: the key __proto__ is the accessor of
\* Object.prototype, which sets the prototype and adds no property
setProperty(object, key, value) ==
    IF key = ProtoKey THEN object ELSE Put(object, key, value)

\* Map.set on the listings in their insertion order
mapSet(list, listing) ==
    IF \E i \in 1..Len(list) : list[i].id = listing.id
    THEN [i \in 1..Len(list) |-> IF list[i].id = listing.id THEN listing ELSE list[i]]
    ELSE Append(list, listing)

\* new Map(state.sessions.map((session) => [session.id, session]))
RECURSIVE mapFrom(_)
mapFrom(list) ==
    IF list = <<>> THEN <<>>
    ELSE mapSet(mapFrom(SubSeq(list, 1, Len(list) - 1)), list[Len(list)])

RECURSIVE mergeFrom(_, _, _)
mergeFrom(next, files, i) ==
    IF i > Len(files) THEN next
    ELSE
        LET listing == toLocalSessionListing(files[i])
        IN IF listing = Null THEN mergeFrom(next, files, i + 1)
           ELSE mergeFrom([files |-> setProperty(next.files, listing.id, files[i]),
                           sessions |-> mapSet(next.sessions, listing)],
                          files, i + 1)

mergeLocalFiles(state, files) ==
    mergeFrom([files |-> state.files, sessions |-> mapFrom(state.sessions)], files, 1)

NoLocalState == [sessions |-> <<>>, files |-> EmptyMap]

(***************************************************************************)
(* Home: its state, its derivations and its handlers, each with the        *)
(* effects that follow it.                                                 *)
(***************************************************************************)
NoPath == <<Absent>>

\* the useState values of Home before the listing has arrived
InitHome ==
    /\ sessionsLoading = TRUE
    /\ homeSessions = <<>> /\ localState = NoLocalState
    /\ sessionSource = "disk" /\ homeSortMode = "recent"
    /\ selectedProjectPath = NoPath
    /\ activeSessions = <<>> /\ scopedSessions = <<>>
    /\ projectGroups = <<>> /\ projectTree = <<>>
    /\ projectQuery = <<>> /\ filteredProjectTree = <<>>

\* activeSessions on a local host, where there is no demo mode
Active(source, local, disk) == IF source = "local" THEN local.sessions ELSE disk

\* the three useMemo derivations of Home on the sessions and the query given
Derive(sessions, query) ==
    LET groups == groupSessions(sessions, "recent")
        filtered == filterProjectTree(buildProjectTree(groups), query)
    IN /\ projectGroups' = groups
       /\ projectTree' = filtered.source
       /\ filteredProjectTree' = filtered.result

\* the selection stays whatever the active sessions are
keepSelection(active, selected) == selected

\* the selection after the effect that drops a selection without sessions
Effective(active, selected) ==
    IF selected # NoPath /\ selected # <<>>
       /\ ~\E i \in 1..Len(active) : isSessionInProject(active[i], selected)
    THEN NoPath ELSE selected

\* scopedSessions and the selection effect on the active sessions, the
\* selection and the sort mode given
Scope(active, selected, sortMode) ==
    LET path == Effective(active, selected)
        inProject(session) == isSessionInProject(session, path)
        sorted == IF path # NoPath /\ path # <<>>
                  THEN [sortCopy(SelectSeq(active, inProject), sortMode)
                            EXCEPT !.source = active]
                  ELSE sortCopy(active, sortMode)
    IN /\ selectedProjectPath' = path
       /\ activeSessions' = sorted.source
       /\ scopedSessions' = sorted.result

\* loadSessions: the listing arrives
LoadSessions(sessions) ==
    /\ sessionsLoading
    /\ sessionsLoading' = FALSE
    /\ homeSessions' = sessions
    /\ Derive(Active(sessionSource, localState, sessions), projectQuery)
    /\ Scope(Active(sessionSource, localState, sessions), selectedProjectPath,
             homeSortMode)
    /\ UNCHANGED <<localState, sessionSource, homeSortMode, projectQuery, pageVars,
                   diffVars, snapshotVars,
                   serverVars, loadVars>>

\* the Refresh button: loadSessions starts again
Refresh ==
    /\ sessionSource = "disk" /\ ~sessionsLoading
    /\ sessionsLoading' = TRUE
    /\ UNCHANGED <<homeSessions, localState, sessionSource, homeSortMode,
                   selectedProjectPath, activeSessions, scopedSessions, projectGroups,
                   projectTree, projectQuery, filteredProjectTree, pageVars, diffVars,
                   snapshotVars,
                   serverVars, loadVars>>

\* the project search box changes: only the filter runs again
SetProjectQuery(query) ==
    /\ query # projectQuery
    /\ projectQuery' = query
    /\ LET filtered == filterProjectTree(projectTree, query)
       IN /\ projectTree' = filtered.source
          /\ filteredProjectTree' = filtered.result
    /\ UNCHANGED <<sessionsLoading, homeSessions, localState, sessionSource,
                   homeSortMode, selectedProjectPath, activeSessions, scopedSessions,
                   projectGroups, pageVars, diffVars, snapshotVars,
                   serverVars, loadVars>>

RECURSIVE NodePaths(_)
NodePaths(nodes) ==
    UNION {{nodes[i].path} \cup NodePaths(nodes[i].children) : i \in 1..Len(nodes)}

\* a node of the project tree shown is clicked
SelectProject(path) ==
    /\ ~(sessionSource = "disk" /\ sessionsLoading)
    /\ path \in NodePaths(filteredProjectTree)
    /\ path # selectedProjectPath
    /\ Scope(activeSessions, path, homeSortMode)
    /\ UNCHANGED <<sessionsLoading, homeSessions, localState, sessionSource,
                   homeSortMode, projectGroups, projectTree, projectQuery,
                   filteredProjectTree, pageVars, diffVars, snapshotVars,
                   serverVars, loadVars>>

\* the Clear filter button
ClearSelection ==
    /\ selectedProjectPath # NoPath /\ selectedProjectPath # <<>>
    /\ Scope(activeSessions, NoPath, homeSortMode)
    /\ UNCHANGED <<sessionsLoading, homeSessions, localState, sessionSource,
                   homeSortMode, projectGroups, projectTree, projectQuery,
                   filteredProjectTree, pageVars, diffVars, snapshotVars,
                   serverVars, loadVars>>

SetSortMode(sortMode) ==
    /\ sortMode # homeSortMode
    /\ homeSortMode' = sortMode
    /\ Scope(activeSessions, selectedProjectPath, sortMode)
    /\ UNCHANGED <<sessionsLoading, homeSessions, localState, sessionSource,
                   projectGroups, projectTree, projectQuery, filteredProjectTree,
                   pageVars, diffVars, snapshotVars,
                   serverVars, loadVars>>

\* the state of Home once the source and the import store are as given: a
\* change of the source resets the selection
Show(source, local) ==
    /\ sessionSource' = source
    /\ localState' = local
    /\ Derive(Active(source, local, homeSessions), projectQuery)
    /\ Scope(Active(source, local, homeSessions),
             IF source # sessionSource THEN NoPath ELSE selectedProjectPath,
             homeSortMode)
    /\ UNCHANGED <<sessionsLoading, homeSessions, homeSortMode, projectQuery, pageVars,
                   diffVars, snapshotVars,
                   serverVars, loadVars>>

\* one of the two source buttons
SetSessionSource(source) ==
    /\ source # sessionSource
    /\ Show(source, localState)

\* handleLocalFiles on dropped or chosen files
HandleLocalFiles(files) ==
    /\ SelectSeq(files, isJsonlFile) # <<>>
    /\ Show("local", mergeLocalFiles(localState, SelectSeq(files, isJsonlFile)))

\* one of the two Clear imports buttons
ClearFiles ==
    /\ localState.sessions # <<>> \/ sessionSource = "local"
    /\ Show(sessionSource, NoLocalState)

\* session listings of up to MaxSessions files in project directories whose
\* labels share prefixes, differ in case and have empty segments
MaxSessions == 3
Slugs ==
    {<<"B">>, <<"-", "a", "-", "B">>, <<"-", "a", "-", "a">>,
     <<"-", "-", "a", "-", "-", "B">>, <<"-", "a", "-", "B", "-", "a">>}
Mtimes == {1, 2}
SessionLists ==
    UNION {{[i \in 1..n |-> toSessionListing([k \in 1..i |-> "a"], c[i][1], c[i][2])] :
                c \in [1..n -> Slugs \X Mtimes]} : n \in 0..MaxSessions}
ProjectQueries ==
    {<<>>, <<"B">>, <<" ">>, <<" ", "a">>, <<"a", "/", "b">>}

NextHome ==
    \/ \E sessions \in SessionLists : LoadSessions(sessions)
    \/ \E query \in ProjectQueries : SetProjectQuery(query)

\* the listings of up to limit distinct sessions out of the listings given
ListsOf(listings, limit) ==
    UNION {{list \in [1..n -> listings] :
                \A i, j \in 1..n : list[i] = list[j] => i = j} : n \in 0..limit}

\* listings of up to MaxScope sessions whose labels share a prefix with and
\* without a separator after it, lie under one another or have an empty segment
MaxScope == 2
ScopeListings ==
    {toSessionListing(<<"b">>, <<"-", "a", "-", "B">>, 1),
     toSessionListing(<<"a">>, <<"-", "a", "-", "B", "a">>, 2),
     toSessionListing(<<"B">>, <<"-", "a", "-", "B", "-", "a">>, 1),
     toSessionListing(<<"c">>, <<"-", "a", "-", "-", "B">>, 3)}
ScopeLists == ListsOf(ScopeListings, MaxScope)

\* dropped or chosen files: a session file of a folder, a session file
\* without a folder, a file that is no session file
MaxBatch == 1
ScopeFiles ==
    {File(<<"b">> \o Jsonl, <<"-", "a", "-", "B", "/", "b">> \o Jsonl, 1),
     File(<<"a">> \o Jsonl, <<>>, 2),
     File(<<"n", ".", "t", "x", "t">>, <<>>, 1)}
ScopeBatches == UNION {[1..n -> ScopeFiles] : n \in 1..MaxBatch}

NextScope ==
    \/ \E sessions \in ScopeLists : LoadSessions(sessions)
    \/ Refresh
    \/ \E path \in NodePaths(filteredProjectTree) : SelectProject(path)
    \/ ClearSelection
    \/ \E source \in {"disk", "local"} : SetSessionSource(source)
    \/ \E files \in ScopeBatches : HandleLocalFiles(files)
    \/ ClearFiles

\* imported files: two session files of one id that differ in the case of the
\* extension, in the folder and in the time, a session file of another id in
\* two versions, a session file at the root, a session file named __proto__ and a
\* file that is no session file; up to MaxImport of them are dropped at once
MaxImport == 2
ImportFiles ==
    {File(<<"a">> \o Jsonl, <<>>, 1),
     File(<<"a", ".", "J", "S", "O", "N", "L">>, <<"-", "a", "-", "B", "/", "a", ".", "J", "S", "O", "N", "L">>, 2),
     File(<<"b">> \o Jsonl, <<"B", "/", "b">> \o Jsonl, 1),
     File(<<"b">> \o Jsonl, <<"B", "/", "b">> \o Jsonl, 2),
     File(<<"c">> \o Jsonl, <<"/", "c">> \o Jsonl, 1),
     File(ProtoKey \o Jsonl, <<>>, 1),
     File(<<"n", ".", "t", "x", "t">>, <<>>, 1)}
ImportBatches == UNION {[1..n -> ImportFiles] : n \in 1..MaxImport}

NextImport ==
    \/ \E files \in ImportBatches : HandleLocalFiles(files)
    \/ ClearFiles
    \/ \E source \in {"disk", "local"} : SetSessionSource(source)

\* listings of up to MaxSorted sessions: besides the above, two slugs of one
\* label and two sessions of one slug; the modification times have ties and
\* the ids differ in case
MaxSorted == 3
SortListings ==
    ScopeListings \cup {toSessionListing(<<"d">>, <<"B">>, 2),
                        toSessionListing(<<"e">>, <<"-", "B">>, 3),
                        toSessionListing(<<"f">>, <<"-", "a", "-", "B">>, 3)}
SortLists == ListsOf(SortListings, MaxSorted)
SortModes == {"recent", "oldest", "name"}

NextSort ==
    \/ \E sessions \in SortLists : LoadSessions(sessions)
    \/ \E sortMode \in SortModes : SetSortMode(sortMode)
    \/ \E path \in NodePaths(filteredProjectTree) : SelectProject(path)
    \/ ClearSelection

(***************************************************************************)
(* server.ts: GET /api/file-history/:sessionId/:backup.  A parameter is a   *)
(* sequence of characters; a path is the sequence of its segments below    *)
(* the root of the file system.                                            *)
(***************************************************************************)
fileHistoryRoot == << <<"~">>, <<".claude">>, <<"file-history">> >>

Digits == {"0", "1", "2", "3", "4", "5", "6", "7", "8", "9"}

IsAlphanumeric(ch) ==
    \/ \E i \in 1..Len(Letters) : Letters[i] = Lower(ch)
    \/ ch \in Digits

\* the class of the backup names is applied to the session id
IsSessionIdOrName(str) ==
    /\ str # <<>>
    /\ \A i \in 1..Len(str) : IsAlphanumeric(str[i]) \/ str[i] \in {"@", ".", "_", "-"}

\* /^[a-zA-Z0-9-]+$/.test(str)
IsSessionId(str) ==
    /\ str # <<>>
    /\ \A i \in 1..Len(str) : IsAlphanumeric(str[i]) \/ str[i] = "-"

\* /^[a-zA-Z0-9@._-]+$/.test(str)
IsBackupName(str) ==
    /\ str # <<>>
    /\ \A i \in 1..Len(str) : IsAlphanumeric(str[i]) \/ str[i] \in {"@", ".", "_", "-"}

\* path.join: the parts are joined with "/" and the result is normalised:
\* empty and "." segments go, ".." takes the segment before it away
RECURSIVE normalize(_, _)
normalize(done, segments) ==
    IF segments = <<>> THEN done
    ELSE IF segments[1] = <<>> \/ segments[1] = <<".">>
    THEN normalize(done, Tail(segments))
    ELSE IF segments[1] = <<".", ".">>
    THEN normalize(IF done = <<>> THEN done ELSE SubSeq(done, 1, Len(done) - 1),
                   Tail(segments))
    ELSE normalize(Append(done, segments[1]), Tail(segments))

pathJoin(root, id, backup) ==
    normalize(root, splitOn(id, "/", 1, <<>>) \o splitOn(backup, "/", 1, <<>>))

\* the directories of the machine: the file-history root, what lies above it
\* and the session directories in it.  Any other path may be a file.
IsDirectory(path) ==
    \/ Len(path) <= Len(fileHistoryRoot) /\ path = SubSeq(fileHistoryRoot, 1, Len(path))
    \/ Len(path) = Len(fileHistoryRoot) + 1
       /\ SubSeq(path, 1, Len(fileHistoryRoot)) = fileHistoryRoot

NoFile == <<>>

NoRequest == request = <<>> /\ status = 0 /\ readPath = NoFile

Answer(statusCode, path) ==
    /\ status' = statusCode
    /\ readPath' = path
    /\ UNCHANGED <<request, pageVars, diffVars, snapshotVars, homeVars, loadVars>>

\* the handler of the route on a path that is missing, that cannot be read as
\* a file, or that is a file
GetFileHistory(found) ==
    /\ request # <<>> /\ status = 0
    /\ LET id == request[1]
           backup == request[2]
           filePath == pathJoin(fileHistoryRoot, id, backup)
       IN IF ~IsSessionId(id) THEN Answer(400, NoFile)
          ELSE IF ~IsBackupName(backup) \/ includes(backup, <<".", ".">>)
          THEN Answer(400, NoFile)
          ELSE IF found = "file" /\ ~IsDirectory(filePath) THEN Answer(200, filePath)
          ELSE Answer(404, NoFile)

\* request parameters of up to MaxParam characters, as the router hands them
\* over after decoding
MaxParam == 3
Params == UNION {[1..n -> {"a", ".", "/"}] : n \in 0..MaxParam}

NextServer == \E found \in {"missing", "unreadable", "file"} : GetFileHistory(found)

InitServer == request \in Params \X Params /\ status = 0 /\ readPath = NoFile

(***************************************************************************)
(* SessionPage: the effect that loads the session.  A load is its number,  *)
(* the session id it is for and its ignore flag; a response names the load *)
(* it answers.                                                             *)
(***************************************************************************)
\* SessionPage is not shown
NoLoads ==
    /\ mounted = FALSE /\ pageSession = Null /\ pageError = Null
    /\ pageLoading = TRUE /\ loads = {} /\ started = 0

MaxLoads == 3
SessionIds == {"s", "t"}

Load(n, id) == [n |-> n, sessionId |-> id, ignore |-> FALSE]

SessionResponse(load) == [load |-> load.n, sessionId |-> load.sessionId]

FailedToLoadSession(load) == [load |-> load.n, message |-> "Failed to load session"]

\* the cleanup of the effect: ignore = true
Cleanup == {[load EXCEPT !.ignore = TRUE] : load \in loads}

\* the state is set whether or not the load is ignored
appliesAlways(load) == TRUE

\* if (!ignore)
applies(load) == ~load.ignore

\* the effect runs, on mount or when sessionId, source or the local files have
\* changed, and load() awaits its response
StartLoad(id) ==
    /\ started < MaxLoads
    /\ mounted \/ started = 0
    /\ mounted' = TRUE
    /\ started' = started + 1
    /\ loads' = Cleanup \cup {Load(started + 1, id)}
    /\ pageLoading' = TRUE
    /\ pageError' = Null
    /\ UNCHANGED <<pageSession, pageVars, diffVars, snapshotVars, homeVars, serverVars>>

\* the effect runs for a local session whose file is not in the store: load()
\* throws before it awaits anything
StartLoadWithoutFile(id) ==
    /\ started < MaxLoads
    /\ mounted \/ started = 0
    /\ mounted' = TRUE
    /\ started' = started + 1
    /\ loads' = Cleanup
    /\ pageLoading' = FALSE
    /\ pageError' = FailedToLoadSession(Load(started + 1, id))
    /\ UNCHANGED <<pageSession, pageVars, diffVars, snapshotVars, homeVars, serverVars>>

\* the effect runs without a session id: load() returns at once
StartWithoutSession ==
    /\ mounted \/ started = 0
    /\ mounted' = TRUE
    /\ loads' = Cleanup
    /\ UNCHANGED <<pageSession, pageError, pageLoading, started, pageVars, diffVars,
                   snapshotVars, homeVars, serverVars>>

\* the page is left
Unmount ==
    /\ mounted
    /\ mounted' = FALSE
    /\ loads' = Cleanup
    /\ UNCHANGED <<pageSession, pageError, pageLoading, started, pageVars, diffVars,
                   snapshotVars, homeVars, serverVars>>

\* the response of a load arrives
LoadSucceeds(load) ==
    /\ load \in loads
    /\ loads' = loads \ {load}
    /\ IF applies(load)
       THEN /\ pageSession' = SessionResponse(load)
            /\ pageLoading' = FALSE
            /\ UNCHANGED pageError
       ELSE UNCHANGED <<pageSession, pageError, pageLoading>>
    /\ UNCHANGED <<mounted, started, pageVars, diffVars, snapshotVars, homeVars,
                   serverVars>>

\* the fetch or the read of a load fails, or the fetch is aborted
LoadFails(load) ==
    /\ load \in loads
    /\ loads' = loads \ {load}
    /\ IF applies(load)
       THEN /\ pageError' = FailedToLoadSession(load)
            /\ pageLoading' = FALSE
            /\ UNCHANGED pageSession
       ELSE UNCHANGED <<pageSession, pageError, pageLoading>>
    /\ UNCHANGED <<mounted, started, pageVars, diffVars, snapshotVars, homeVars,
                   serverVars>>

NextLoad ==
    \/ \E id \in SessionIds : StartLoad(id)
    \/ \E id \in SessionIds : StartLoadWithoutFile(id)
    \/ StartWithoutSession
    \/ Unmount
    \/ \E load \in loads : LoadSucceeds(load)
    \/ \E load \in loads : LoadFails(load)

\* no diff is computed and no code block is shown
NoDiffs ==
    /\ oldText = <<>> /\ newText = <<>> /\ diff = <<>> /\ diffShown = <<>>
    /\ code = <<>> /\ preview = <<>>

\* the useState values of a snapshot block before any click
NoSnapshotBlock ==
    /\ openKey = Absent /\ openMode = Absent
    /\ contentCache = EmptyMap /\ diffCache = EmptyMap
    /\ loadingKeys = EmptyMap /\ errorCache = EmptyMap
    /\ calls = {} /\ fetchLog = <<>>

\* the home page is not shown
NoHome ==
    /\ sessionsLoading = FALSE
    /\ homeSessions = <<>> /\ localState = NoLocalState
    /\ sessionSource = "disk" /\ homeSortMode = "recent"
    /\ selectedProjectPath = NoPath
    /\ activeSessions = <<>> /\ scopedSessions = <<>>
    /\ projectGroups = <<>> /\ projectTree = <<>>
    /\ projectQuery = <<>> /\ filteredProjectTree = <<>>

Init == InitPage(Texts) /\ NoDiffs /\ NoSnapshotBlock /\ NoHome /\ NoRequest
    /\ NoLoads
Spec == Init /\ [][Next]_vars

InitClassify == InitPage(ClassifyTexts) /\ NoDiffs /\ NoSnapshotBlock /\ NoHome /\ NoRequest
    /\ NoLoads
SpecClassify == InitClassify /\ [][Next]_vars

InitTools == InitPage(ToolTexts) /\ NoDiffs /\ NoSnapshotBlock /\ NoHome /\ NoRequest
    /\ NoLoads
SpecTools == InitTools /\ [][Next]_vars

InitHistory == InitPage(SnapshotTexts) /\ NoDiffs /\ NoSnapshotBlock /\ NoHome /\ NoRequest
    /\ NoLoads
SpecHistory == InitHistory /\ [][Next]_vars

InitBackups == InitPage(BackupTexts) /\ NoDiffs /\ NoSnapshotBlock /\ NoHome /\ NoRequest
    /\ NoLoads
SpecBackups == InitBackups /\ [][Next]_vars

InitSnapshot == InitPage(BlockTexts) /\ NoSnapshotBlock /\ NoDiffs /\ NoHome /\ NoRequest
    /\ NoLoads
SpecSnapshot == InitSnapshot /\ [][NextSnapshot]_vars

InitTree == InitHome /\ NoPage /\ NoDiffs /\ NoSnapshotBlock /\ NoRequest /\ NoLoads
SpecTree == InitTree /\ [][NextHome]_vars

SpecScope == InitTree /\ [][NextScope]_vars

SpecSort == InitTree /\ [][NextSort]_vars

SpecImport == InitTree /\ [][NextImport]_vars

InitLoad == NoLoads /\ NoPage /\ NoDiffs /\ NoSnapshotBlock /\ NoHome /\ NoRequest
SpecLoad == InitLoad /\ [][NextLoad]_vars

InitRequest == InitServer /\ NoPage /\ NoDiffs /\ NoSnapshotBlock /\ NoHome /\ NoLoads
SpecServer == InitRequest /\ [][NextServer]_vars

InitDiff ==
    /\ oldText \in DiffTexts /\ newText \in DiffTexts
    /\ diff = <<>> /\ diffShown = <<>> /\ code = <<>> /\ preview = <<>>
    /\ NoPage /\ NoSnapshotBlock /\ NoHome /\ NoRequest /\ NoLoads
SpecDiff == InitDiff /\ [][NextDiff]_vars

InitPreview ==
    /\ \/ code \in PreviewTexts /\ oldText = <<>> /\ newText = <<>>
       \/ code = <<>> /\ \E pair \in LongPairs : oldText = pair[1] /\ newText = pair[2]
    /\ diff = <<>> /\ diffShown = <<>> /\ preview = <<>>
    /\ NoPage /\ NoSnapshotBlock /\ NoHome /\ NoRequest /\ NoLoads
SpecPreview == InitPreview /\ [][NextDiff]_vars

(***************************************************************************)
(* Lines of a text, read off the positions of its line breaks              *)
(***************************************************************************)
LineBreaks(t) == {i \in 1..Len(t) : t[i].c = "\n"}

LineStarts(t) == {1} \cup {b + 1 : b \in LineBreaks(t)}

\* the position of the "\n" that ends the line starting at s, Len(t) + 1 for the last
LineEnd(t, s) ==
    LET ends == {e \in LineBreaks(t) \cup {Len(t) + 1} : e >= s}
    IN CHOOSE e \in ends : \A f \in ends : e <= f

\* the position of the last character of the line starting at s
LineLast(t, s) ==
    LET e == LineEnd(t, s)
    IN IF e <= Len(t) /\ e - 1 >= s /\ t[e - 1].c = "\r" THEN e - 2 ELSE e - 1

LineAt(t, s) == SubSeq(t, s, LineLast(t, s))

\* the text with the line starting at s replaced, line breaks untouched
WithLineAt(t, s, line) ==
    SubSeq(t, 1, s - 1) \o line \o SubSeq(t, LineLast(t, s) + 1, Len(t))

NonEmptyStarts(t) == {s \in LineStarts(t) : LineAt(t, s) # <<>>}

\* 1-based position of the line starting at s among the non-empty lines
Rank(t, s) == Cardinality({r \in NonEmptyStarts(t) : r <= s})

WellFormedLines == {<<Doc(EmptyRecord)>>, <<Doc(UserRecord)>>}

(***************************************************************************)
(* Properties of the record parser                                         *)
(***************************************************************************)
\* C1: parseClaudeJsonl returns one entry per non-empty line of the text split
\* on \n or \r\n, in input order, and the i-th entry's raw is the i-th
\* non-empty line verbatim.
C1_OneEntryPerLine ==
    pc = "ready" =>
        /\ Len(entries) = Cardinality(NonEmptyStarts(text))
        /\ \A s \in NonEmptyStarts(text) : entries[Rank(text, s)].raw = LineAt(text, s)

\* a text with a blank line, a CRLF break and at least two entries
C1_Witness ==
    /\ pc = "ready"
    /\ Len(entries) >= 2
    /\ LineStarts(text) # NonEmptyStarts(text)
    /\ \E i \in 1..(Len(text) - 1) : text[i].c = "\r" /\ text[i + 1].c = "\n"

\* C2: a line that is not valid JSON gives an entry of category error without
\* data, with a non-empty message and the id "error-" + index; parsing goes on
\* to the end, and every other line's entry is what it is when the malformed
\* line is replaced by a well-formed one.
C2_MalformedLineIsolated ==
    pc = "ready" =>
        /\ Len(entries) = Cardinality(NonEmptyStarts(text))
        /\ \A s \in NonEmptyStarts(text) :
            ~IsValidJson(LineAt(text, s)) =>
                LET n == Rank(text, s) IN
                /\ entries[n].category = "error"
                /\ ~entries[n].hasData
                /\ Truthy(entries[n].error)
                /\ entries[n].id = "error-" \o ToString(n - 1)
                /\ \A w \in WellFormedLines :
                    LET other == parseClaudeJsonl(WithLineAt(text, s, w))
                    IN /\ Len(other) = Len(entries)
                       /\ \A m \in 1..Len(entries) : m # n => other[m] = entries[m]

\* a malformed line followed by a record that takes the fallback id
C2_Witness ==
    /\ pc = "ready"
    /\ \E n \in 1..Len(entries) : \E m \in 1..Len(entries) :
        /\ n < m
        /\ entries[n].category = "error"
        /\ ~IsValidJson(entries[n].raw)
        /\ entries[m].hasData
        /\ entries[m].id = "entry-" \o ToString(m - 1)

\* the categories the priority list allows for a record type
CategoriesFor(type) ==
    CASE type = "summary" -> {"summary"}
      [] type = "file-history-snapshot" -> {"snapshot"}
      [] type = "queue-operation" -> {"queue"}
      [] type = "system" -> {"system"}
      [] type \in {"assistant", "user"} -> {"tool", "message"}
      [] OTHER -> {"other"}

DocType(value) == IF value.k = "object" THEN value.type ELSE Absent

DocContentItems(value) ==
    IF value.message.content.k \in {"array", "object"}
    THEN value.message.content.items
    ELSE <<>>

HasToolItem(items) ==
    \E j \in 1..Len(items) :
        items[j].k = "object" /\ items[j].type \in {"tool_use", "tool_result"}

\* C3: every line that is valid JSON, whatever the value and whatever the shape
\* of message.content, gives an entry with data, without error, of the category
\* the priority list gives for its type.
C3_ValidJsonClassified ==
    pc = "ready" =>
        \A n \in 1..Len(entries) :
            IsValidJson(entries[n].raw) =>
                /\ entries[n].hasData
                /\ entries[n].error = Absent
                /\ entries[n].category \in CategoriesFor(DocType(JSONparse(entries[n].raw)))

\* C4: in every entry exactly one of data and error is populated, and the
\* category is error exactly when error is set.
C4_DataXorError ==
    pc = "ready" =>
        \A n \in 1..Len(entries) :
            /\ entries[n].hasData # (entries[n].error # Absent)
            /\ (entries[n].category = "error") = (entries[n].error # Absent)
            /\ entries[n].error # ""

\* a valid JSON line that became an error entry, after an entry with data
C4_Witness ==
    /\ pc = "ready"
    /\ \E n \in 1..Len(entries) : entries[n].hasData
    /\ \E n \in 1..Len(entries) :
        IsValidJson(entries[n].raw) /\ entries[n].category = "error"

\* C5: a user or assistant record is classified tool when its content holds a
\* tool_use or tool_result item, whatever the other items and wherever the
\* tool item stands, and message when it holds none.
C5_ToolBeatsMessage ==
    pc = "ready" =>
        \A n \in 1..Len(entries) :
            LET value == JSONparse(entries[n].raw) IN
            (IsValidJson(entries[n].raw) /\ DocType(value) \in {"assistant", "user"}) =>
                entries[n].category =
                    IF HasToolItem(DocContentItems(value)) THEN "tool" ELSE "message"

IdCandidates(value) ==
    IF value.k = "object"
    THEN <<value.uuid, value.leafUuid, value.messageId, value.message.id>>
    ELSE <<Absent, Absent, Absent, Absent>>

FirstPresent(cands) ==
    cands[CHOOSE k \in 1..Len(cands) :
            Truthy(cands[k]) /\ \A j \in 1..(k - 1) : ~Truthy(cands[j])]

ItemPositions(es) ==
    UNION {{<<e, j>> : j \in 1..Len(EntryItems(es[e]))} : e \in 1..Len(es)}

ItemAt(es, p) == EntryItems(es[p[1]])[p[2]]

\* the tool_use items that carry the invocation id
UsesOf(es, id) ==
    {p \in ItemPositions(es) :
        /\ ItemAt(es, p).k = "object"
        /\ ItemAt(es, p).type = "tool_use"
        /\ Truthy(id)
        /\ ItemAt(es, p).id = id}

InvocationIds(es) ==
    {ItemAt(es, p).id : p \in {q \in ItemPositions(es) : UsesOf(es, ItemAt(es, q).id) # {}}}

Later(p, q) == p[1] > q[1] \/ (p[1] = q[1] /\ p[2] > q[2])

LastUse(es, id) ==
    ItemAt(es, CHOOSE p \in UsesOf(es, id) : \A q \in UsesOf(es, id) : q = p \/ Later(p, q))

\* C7: the lookup maps every invocation id to the name and input of the last
\* tool_use item with that id in entry order, then item order, and a second
\* run on the same entries gives the same mapping.
C7_LastWriteWins ==
    pc = "ready" =>
        /\ DOMAIN toolUseLookup = InvocationIds(entries)
        /\ \A id \in InvocationIds(entries) :
            /\ toolUseLookup[id].id = id
            /\ toolUseLookup[id].name = LastUse(entries, id).name
            /\ toolUseLookup[id].input = LastUse(entries, id).input

\* the lookup was built twice and holds the later of two names of one id
C7_Witness ==
    /\ pc = "ready"
    /\ renders >= 1
    /\ \E p \in UsesOf(entries, "t1") : \E q \in UsesOf(entries, "t1") :
        /\ p[1] < q[1]
        /\ ItemAt(entries, p).name = "Read"
        /\ ItemAt(entries, q).name = "Grep"
        /\ LastUse(entries, "t1") = ItemAt(entries, q)
        /\ toolUseLookup["t1"].name = "Grep"

\* the tool_result items the timeline shows
ResultPositions(es) ==
    {p \in UNION {{<<e, j>> : j \in 1..Len(RenderedItems(es[e]))} : e \in 1..Len(es)} :
        RenderedItems(es[p[1]])[p[2]].type = "tool_result"}

\* what a result shows of the invocation it refers to
Annotation(use) ==
    [shown |-> TRUE,
     toolName |-> IF use.name # Absent THEN use.name ELSE "Tool",
     filePath |-> IF Truthy(use.input.file_path) THEN use.input.file_path
                  ELSE IF Truthy(use.input.path) THEN use.input.path
                  ELSE Absent]

Unnamed == [shown |-> TRUE, toolName |-> "Tool", filePath |-> Absent]

ResultAnnotated(p) ==
    LET id == ItemAt(entries, p).tool_use_id
        block == toolResults.blocks[p[1]][p[2]]
    IN IF UsesOf(entries, id) # {}
       THEN block = Annotation(LastUse(entries, id))
       ELSE block = Unnamed

\* C8 as stated: a result is annotated with the lookup entry of its invocation
\* wherever the tool_use stands in the sequence, and is the unnamed "Tool"
\* without file path only when no tool_use with that id exists.
C8_UnnamedOnlyWhenMissing ==
    (pc = "ready" /\ ~toolResults.crashed) =>
        \A p \in ResultPositions(entries) :
            /\ ResultAnnotated(p)
            /\ toolResults.blocks[p[1]][p[2]] = Unnamed =>
                    UsesOf(entries, ItemAt(entries, p).tool_use_id) = {}

\* C8 amended: a result is annotated with the lookup entry of its invocation
\* wherever the tool_use stands in the sequence, and is the unnamed "Tool"
\* without file path only when no tool_use with that id exists or the last one
\* carries neither a name nor a file_path or path input.
C8_ResolutionOrderFree ==
    (pc = "ready" /\ ~toolResults.crashed) =>
        \A p \in ResultPositions(entries) :
            /\ ResultAnnotated(p)
            /\ toolResults.blocks[p[1]][p[2]] = Unnamed =>
                    \/ UsesOf(entries, ItemAt(entries, p).tool_use_id) = {}
                    \/ LET use == LastUse(entries, ItemAt(entries, p).tool_use_id)
                       IN /\ use.name = Absent
                          /\ ~Truthy(use.input.file_path)
                          /\ ~Truthy(use.input.path)

\* a result in the first entry whose invocation comes two entries later
C8_Witness ==
    /\ pc = "ready"
    /\ ~toolResults.crashed
    /\ Len(entries) = 3
    /\ <<1, 1>> \in ResultPositions(entries)
    /\ ItemAt(entries, <<1, 1>>).tool_use_id = "t1"
    /\ UsesOf(entries, "t1") = {<<3, 1>>}
    /\ toolResults.blocks[1][1].toolName = "Read"
    /\ toolResults.blocks[1][1].filePath = "/a.ts"

(***************************************************************************)
(* Properties of the file-history indexer                                  *)
(***************************************************************************)
VersionOf(info) == IF info.version = <<>> THEN 0 ELSE info.version[1]

IsSnapshotEntry(entry) ==
    entry.hasData /\ entry.data.k = "object" /\ entry.data.type = "file-history-snapshot"

\* the (filePath, backupFileName, version) triples of the snapshot entries
\* that name a backup file
SnapshotTriples(es) ==
    UNION {{<<es[e].data.snapshot.tracked[i].filePath,
              es[e].data.snapshot.tracked[i].info.backupFileName,
              VersionOf(es[e].data.snapshot.tracked[i].info)>> :
                i \in {j \in 1..Len(es[e].data.snapshot.tracked) :
                        Truthy(es[e].data.snapshot.tracked[j].info.backupFileName)}} :
           e \in {d \in 1..Len(es) : IsSnapshotEntry(es[d])}}

TripleOf(backup) == <<backup.filePath, backup.backupFileName, backup.version>>

\* C9: each path's list holds exactly one FileBackupInfo for every distinct
\* triple that occurs with a backupFileName in a snapshot entry, and nothing else.
C9_EveryTripleIndexed ==
    pc = "ready" =>
        /\ \A t \in SnapshotTriples(entries) :
            /\ t[1] \in DOMAIN fileHistoryIndex
            /\ Cardinality({k \in 1..Len(fileHistoryIndex[t[1]]) :
                                TripleOf(fileHistoryIndex[t[1]][k]) = t}) = 1
        /\ \A p \in DOMAIN fileHistoryIndex :
            \A k \in 1..Len(fileHistoryIndex[p]) :
                /\ fileHistoryIndex[p][k].filePath = p
                /\ TripleOf(fileHistoryIndex[p][k]) \in SnapshotTriples(entries)

\* C10: no triple appears twice in a path's list, and each list is
\* non-decreasing by version.
C10_DedupedAndSorted ==
    pc = "ready" =>
        \A p \in DOMAIN fileHistoryIndex :
            \A k \in 1..Len(fileHistoryIndex[p]) : \A l \in 1..Len(fileHistoryIndex[p]) :
                k < l =>
                    /\ TripleOf(fileHistoryIndex[p][k]) # TripleOf(fileHistoryIndex[p][l])
                    /\ fileHistoryIndex[p][k].version <= fileHistoryIndex[p][l].version

\* two snapshots share a triple of "a@b", and "a" is tracked at version 2
\* before version 1
C10_Witness ==
    /\ pc = "ready"
    /\ Len(entries) = 2
    /\ IsSnapshotEntry(entries[1]) /\ IsSnapshotEntry(entries[2])
    /\ entries[1].data.snapshot.tracked =
            <<Tracked("a", BackupInfo("b", <<2>>, Absent)),
              Tracked("a@b", BackupInfo("b", <<1>>, Absent))>>
    /\ entries[2].data.snapshot.tracked =
            <<Tracked("a", BackupInfo("b", <<1>>, Absent)),
              Tracked("a@b", BackupInfo("b", <<1>>, Absent))>>
    /\ Len(fileHistoryIndex["a"]) = 2
    /\ fileHistoryIndex["a"][1].version = 1
    /\ Len(fileHistoryIndex["a@b"]) = 1

(***************************************************************************)
(* Properties of the previous-backup lookup                                *)
(***************************************************************************)
\* the rows of all snapshot blocks, as (entry, row) positions
RowPositions ==
    UNION {{<<e, i>> : i \in 1..Len(snapshotRows[e])} : e \in 1..Len(snapshotRows)}

RowAt(p) == snapshotRows[p[1]][p[2]]

IndexedBackups(filePath) ==
    IF filePath \in DOMAIN fileHistoryIndex
    THEN {fileHistoryIndex[filePath][k] : k \in 1..Len(fileHistoryIndex[filePath])}
    ELSE {}

SmallerBackups(filePath, version) ==
    {b \in IndexedBackups(filePath) : b.version < version}

\* C11: the previous backup of a row is an entry of its path's list whose
\* version is the largest one strictly below the row's version; there is none
\* when the version is 0, the path is not indexed or no smaller version exists.
C11_PreviousIsLargestSmaller ==
    pc = "ready" =>
        \A p \in RowPositions :
            LET row == RowAt(p)
                smaller == SmallerBackups(row.filePath, row.version)
            IN IF row.version = 0 \/ smaller = {}
               THEN row.previous = Undefined
               ELSE /\ row.previous \in smaller
                    /\ \A b \in smaller : b.version <= row.previous.version

\* versions 1 and 2 are both below the row's version 3, and version 2 is found
C11_Witness ==
    /\ pc = "ready"
    /\ \E p \in RowPositions :
          /\ RowAt(p).version = 3
          /\ \E b \in SmallerBackups(RowAt(p).filePath, 3) : b.version = 1
          /\ RowAt(p).previous # Undefined
          /\ RowAt(p).previous.version = 2

(***************************************************************************)
(* Properties of the differ                                                *)
(***************************************************************************)
\* the lines of a text separated by "\n" alone, by position
NthStart(t, k) ==
    CHOOSE s \in LineStarts(t) : Cardinality({r \in LineStarts(t) : r <= s}) = k

RawLines(t) ==
    [k \in 1..Cardinality(LineStarts(t)) |->
        SubSeq(t, NthStart(t, k), LineEnd(t, NthStart(t, k)) - 1)]

\* what position i contributes to the diff of line lists A and B
DiffAt(A, B, i) ==
    IF i <= Len(A) /\ i <= Len(B) /\ A[i] = B[i] THEN <<DiffLine("context", A[i])>>
    ELSE (IF i <= Len(A) THEN <<DiffLine("removed", A[i])>> ELSE <<>>)
         \o (IF i <= Len(B) THEN <<DiffLine("added", B[i])>> ELSE <<>>)

\* C12: the diff is the concatenation, for i up to the longer line count, of
\* one context line where A[i] and B[i] both exist and are equal and otherwise
\* of removed A[i] (if present) then added B[i] (if present); every content is a
\* line of one of the texts.
C12_PositionalDiff ==
    diff # <<>> =>
        LET A == RawLines(oldText)
            B == RawLines(newText)
            n == Max(Len(A), Len(B))
        IN /\ diff = Flatten([i \in 1..n |-> DiffAt(A, B, i)])
           /\ \A j \in 1..Len(diff) :
                /\ diff[j].content # NoLine
                /\ \/ \E i \in 1..Len(A) : diff[j].content = A[i]
                   \/ \E i \in 1..Len(B) : diff[j].content = B[i]

\* the old text has one line and the new text two: the first pair differs and
\* the second new line has no partner
C12_Witness ==
    /\ oldText = <<Junk>>
    /\ newText = <<CR, NL, Junk>>
    /\ diff = <<DiffLine("removed", <<Junk>>), DiffLine("added", <<CR>>),
                DiffLine("added", <<Junk>>)>>

(***************************************************************************)
(* Properties of the preview                                               *)
(***************************************************************************)
\* the lines of a text whose breaks are "\n" or "\r\n"; a break that ends the
\* text starts no further line
CodeLineStarts(t) ==
    {s \in LineStarts(t) : s <= Len(t) \/ t = <<>> \/ t[Len(t)].c # "\n"}

NthCodeStart(t, k) ==
    CHOOSE s \in CodeLineStarts(t) : Cardinality({r \in CodeLineStarts(t) : r <= s}) = k

CodeLines(t) ==
    [k \in 1..Cardinality(CodeLineStarts(t)) |-> LineAt(t, NthCodeStart(t, k))]

\* C16: a code block shows the first lines of its code in order, at most
\* PREVIEW_LINE_LIMIT of them, and a diff block the first lines of its diff
\* likewise; the note with the limit and the total is there exactly when the
\* total exceeds the limit.
C16_PreviewIsBoundedPrefix ==
    /\ preview # <<>> =>
        LET lines == CodeLines(code)
            shown == Min(Len(lines), PREVIEW_LINE_LIMIT)
        IN /\ preview.text = JoinLines(SubSeq(lines, 1, shown))
           /\ preview.note =
                IF Len(lines) > PREVIEW_LINE_LIMIT
                THEN Note(PREVIEW_LINE_LIMIT, Len(lines)) ELSE NoNote
    /\ diffShown # <<>> =>
        /\ Len(diffShown.lines) <= PREVIEW_LINE_LIMIT
        /\ diffShown.lines = SubSeq(diff, 1, Len(diffShown.lines))
        /\ Len(diffShown.lines) < PREVIEW_LINE_LIMIT => diffShown.lines = diff
        /\ diffShown.note =
                IF Len(diff) > PREVIEW_LINE_LIMIT
                THEN Note(PREVIEW_LINE_LIMIT, Len(diff)) ELSE NoNote

\* a code of eleven lines with "\r\n" breaks is cut to ten and carries the note
C16_Witness ==
    /\ preview # <<>>
    /\ code = JoinWith([i \in 1..PREVIEW_LINE_LIMIT + 1 |-> <<Junk>>], <<CR, NL>>) \o <<NL>>
    /\ preview.text = JoinLines([i \in 1..PREVIEW_LINE_LIMIT |-> <<Junk>>])
    /\ preview.note = Note(PREVIEW_LINE_LIMIT, PREVIEW_LINE_LIMIT + 1)

(***************************************************************************)
(* Properties of the snapshot block                                        *)
(***************************************************************************)
LogPositions(event, kind, key) ==
    {i \in 1..Len(fetchLog) :
        fetchLog[i].event = event /\ fetchLog[i].kind = kind /\ fetchLog[i].key = key}

\* the position where the fetch of key by call id was started
StartOf(id, key) ==
    CHOOSE i \in 1..Len(fetchLog) :
        fetchLog[i].event = "start" /\ fetchLog[i].id = id /\ fetchLog[i].key = key

DiffCalls(fileKey) ==
    {fetchLog[i].id : i \in LogPositions("start", "diff", fileKey)}

\* the texts of a diff call both of whose fetches succeeded, as <<current, previous>>
SuccessfulDiffs(fileKey) ==
    {<<fetchLog[i].text, fetchLog[j].text>> :
        <<i, j>> \in {p \in LogPositions("ok", "diff", fileKey)
                            \X LogPositions("ok", "diff", PrevKey(fileKey)) :
                        fetchLog[p[1]].id = fetchLog[p[2]].id}}

LatestDiffCall(fileKey) ==
    CHOOSE id \in DiffCalls(fileKey) : \A other \in DiffCalls(fileKey) : other <= id

FailedIn(id) ==
    \E i \in 1..Len(fetchLog) : fetchLog[i].id = id /\ fetchLog[i].event = "fail"

CompletedCall(id) == \A call \in calls : call.id # id

\* C13: a diff is in the cache only when a diff call fetched both backups
\* successfully, and it is the diff of those two texts; when a fetch of the
\* latest diff call of an open row failed, nothing is cached and the row shows
\* an error, not "No diff available.".
C13_DiffNeedsBothAndFailureShown ==
    \A r \in 1..Len(BlockRows) :
        LET row == BlockRows[r]
            fileKey == row.fileKey
        IN /\ fileKey \in DOMAIN diffCache =>
                \E texts \in SuccessfulDiffs(fileKey) :
                    diffCache[fileKey] = computeDiff(texts[2], texts[1])
           /\ (/\ openKey = fileKey /\ openMode = "diff"
               /\ DiffCalls(fileKey) # {}
               /\ CompletedCall(LatestDiffCall(fileKey))
               /\ FailedIn(LatestDiffCall(fileKey))
               /\ RowView(row).status # "Loading backup...")
                => /\ fileKey \notin DOMAIN diffCache
                   /\ RowView(row).isError
                   /\ ~RowView(row).noDiff

\* the events a step adds to the fetch log
NewEvents ==
    {fetchLog'[i] : i \in (Len(fetchLog) + 1)..Len(fetchLog')}

EventNow(event, key) == \E e \in NewEvents : e.event = event /\ e.key = key

\* C14 as stated: an error recorded for a key stays set in every step but one
\* in which a fetch for that key succeeds.
C14_ErrorKeptUntilSuccess ==
    [][\A key \in DOMAIN errorCache :
            (Truthy(errorCache[key]) /\ ~EventNow("ok", key))
                => (key \in DOMAIN errorCache' /\ Truthy(errorCache'[key]))]_vars

\* C14: the error recorded for a key is emptied by the start of a fetch for
\* that key, set by the failure of one, and left as it is by every other step,
\* the success of a fetch for that key included.
C14_ErrorKeptUntilRetryStarts ==
    [][\A key \in DOMAIN errorCache' :
            IF EventNow("start", key) THEN errorCache'[key] = ""
            ELSE IF EventNow("fail", key) THEN errorCache'[key] = FailedToLoad
            ELSE key \in DOMAIN errorCache /\ errorCache'[key] = errorCache[key]]_vars

\* a fetch failed, the retry has just been started and the error is gone
C14_Witness ==
    /\ Len(fetchLog) = 3
    /\ fetchLog[2].event = "fail"
    /\ fetchLog[3].event = "start" /\ fetchLog[3].key = fetchLog[2].key
    /\ errorCache[fetchLog[2].key] = ""

\* C15: when two view fetches of a key were in flight together and both
\* succeeded, the content cache holds for that key the text of the one that
\* completed last.
C15_LastCompletionWins ==
    \A r \in 1..Len(BlockRows) :
        LET key == BlockRows[r].fileKey
            done == LogPositions("ok", "view", key)
        IN \A i \in done : \A j \in done :
            (/\ i < j
             /\ StartOf(fetchLog[j].id, key) < i
             /\ \A k \in LogPositions("ok", "view", key)
                            \cup LogPositions("fail", "view", key) : k <= j
             /\ LogPositions("start", "view", key) =
                    {StartOf(fetchLog[i].id, key), StartOf(fetchLog[j].id, key)})
                => Get(contentCache, key, <<>>) = fetchLog[j].text

(***************************************************************************)
(* Properties of the project tree                                          *)
(***************************************************************************)
RECURSIVE AllNodes(_)
AllNodes(list) ==
    UNION {{list[i]} \cup AllNodes(list[i].children) : i \in 1..Len(list)}

RECURSIVE SumSeq(_)
SumSeq(ns) == IF ns = <<>> THEN 0 ELSE ns[1] + SumSeq(Tail(ns))

RECURSIVE NodeTotal(_)
NodeTotal(list) ==
    SumSeq([i \in 1..Len(list) |-> 1 + NodeTotal(list[i].children)])

\* the segments of a label: its maximal runs of characters other than "/"
RunStarts(label) ==
    {i \in 1..Len(label) : label[i] # "/" /\ (i = 1 \/ label[i - 1] = "/")}

RunEnd(label, s) ==
    CHOOSE e \in s..Len(label) :
        /\ \A i \in s..e : label[i] # "/"
        /\ e = Len(label) \/ label[e + 1] = "/"

LabelSegments(label) ==
    [k \in 1..Cardinality(RunStarts(label)) |->
        LET s == CHOOSE s \in RunStarts(label) :
                    Cardinality({r \in RunStarts(label) : r <= s}) = k
        IN SubSeq(label, s, RunEnd(label, s))]

PathOf(segments) == join(segments, "/")

Prefixes(label) ==
    {PathOf(SubSeq(LabelSegments(label), 1, k)) : k \in 1..Len(LabelSegments(label))}

GroupPrefixes == UNION {Prefixes(projectGroups[g].project) : g \in 1..Len(projectGroups)}

IsTerminalOf(path, label) ==
    LabelSegments(label) # <<>> /\ path = PathOf(LabelSegments(label))

\* C17: the tree has exactly one node per distinct cumulative path prefix of
\* the groups' labels; the nodes of one segment are the roots and every other
\* node is a child of the node of its path without the last segment; a node has
\* a projectSlug only if it is the terminal segment of some group's label.
C17_OneNodePerPrefix ==
    ~sessionsLoading =>
        /\ {n.path : n \in AllNodes(projectTree)} = GroupPrefixes
        /\ NodeTotal(projectTree) = Cardinality(GroupPrefixes)
        /\ \A i \in 1..Len(projectTree) :
            projectTree[i].path = projectTree[i].name /\ ~includes(projectTree[i].name, <<"/">>)
        /\ \A n \in AllNodes(projectTree) :
            /\ n.id = n.path
            /\ \A i \in 1..Len(n.children) :
                /\ n.children[i].path = n.path \o <<"/">> \o n.children[i].name
                /\ ~includes(n.children[i].name, <<"/">>)
            /\ n.projectSlug # NoSlug =>
                \E g \in 1..Len(projectGroups) :
                    /\ IsTerminalOf(n.path, projectGroups[g].project)
                    /\ n.projectSlug = projectGroups[g].projectSlug

\* the labels a/B/a, /a//B and B give the nodes a, a/B, a/B/a and B; a is no
\* terminal segment and has no projectSlug
C17_Witness ==
    /\ ~sessionsLoading
    /\ {projectGroups[g].project : g \in 1..Len(projectGroups)} =
            {<<"a", "/", "B", "/", "a">>, <<"/", "a", "/", "/", "B">>, <<"B">>}
    /\ {n.path : n \in AllNodes(projectTree)} =
            {<<"a">>, <<"a", "/", "B">>, <<"a", "/", "B", "/", "a">>, <<"B">>}
    /\ \E n \in AllNodes(projectTree) : n.path = <<"a">> /\ n.projectSlug = NoSlug
    /\ \E n \in AllNodes(projectTree) :
            n.path = <<"a", "/", "B">> /\ n.projectSlug = <<"-", "-", "a", "-", "-", "B">>

\* the groups whose label passes through the path: the node's own group and
\* the groups of its descendants
GroupsUnder(path) ==
    {g \in 1..Len(projectGroups) : path \in Prefixes(projectGroups[g].project)}

\* C18: a node's latestMtime is the largest latestMtime of its own group and
\* its descendants' groups, and its sessionsCount the number of sessions of
\* those groups together.
C18_Aggregates ==
    ~sessionsLoading =>
        \A n \in AllNodes(projectTree) :
            /\ GroupsUnder(n.path) # {}
            /\ \E g \in GroupsUnder(n.path) : n.latestMtime = projectGroups[g].latestMtime
            /\ \A g \in GroupsUnder(n.path) : n.latestMtime >= projectGroups[g].latestMtime
            /\ n.sessionsCount =
                SumSeq([g \in 1..Len(projectGroups) |->
                            IF g \in GroupsUnder(n.path)
                            THEN Len(projectGroups[g].sessions) ELSE 0])

\* node a/B has a group of its own with two older sessions and a newer
\* descendant group
C18_Witness ==
    /\ ~sessionsLoading
    /\ Len(projectGroups) = 2
    /\ \E n \in AllNodes(projectTree) :
        /\ n.path = <<"a", "/", "B">>
        /\ n.sessionsCount = 3
        /\ n.latestMtime = 2
        /\ \E g \in GroupsUnder(n.path) :
            /\ projectGroups[g].project = <<"a", "/", "B">>
            /\ projectGroups[g].latestMtime = 1
            /\ Len(projectGroups[g].sessions) = 2

Hit(node, query) ==
    \/ includes(toLowerCase(node.name), toLowerCase(query))
    \/ includes(toLowerCase(node.path), toLowerCase(query))

IsUnder(path, ancestor) ==
    /\ Len(path) > Len(ancestor)
    /\ SubSeq(path, 1, Len(ancestor) + 1) = ancestor \o <<"/">>

\* the node of the path or one of its descendants is a hit
Survives(path, query) ==
    \E m \in AllNodes(projectTree) :
        (m.path = path \/ IsUnder(m.path, path)) /\ Hit(m, query)

SourceNode(path) == CHOOSE n \in AllNodes(projectTree) : n.path = path

PathsOf(list) == [i \in 1..Len(list) |-> list[i].path]

SurvivorsOf(list, query) ==
    SelectSeq(PathsOf(list), LAMBDA path : Survives(path, query))

\* the filtered tree holds exactly the surviving nodes of the source for the
\* query, each with its own fields and with its surviving children in their order
IsPruned(query) ==
    /\ PathsOf(filteredProjectTree) = SurvivorsOf(projectTree, query)
    /\ \A f \in AllNodes(filteredProjectTree) :
        /\ \E n \in AllNodes(projectTree) : n.path = f.path
        /\ [f EXCEPT !.children = <<>>] = [SourceNode(f.path) EXCEPT !.children = <<>>]
        /\ PathsOf(f.children) = SurvivorsOf(SourceNode(f.path).children, query)

\* C19 as stated: for a non-empty query the filtered tree holds the nodes
\* whose name or path contains the query, without regard to case, or that have
\* such a descendant.
C19_FilterKeepsMatches ==
    (~sessionsLoading /\ projectQuery # <<>>) => IsPruned(projectQuery)

\* C19: the query is trimmed first.  If nothing is left the whole tree is the
\* result; otherwise the result holds exactly the nodes whose name or path
\* contains the trimmed query, without regard to case, or that have such a
\* descendant, with the surviving siblings in their order.
C19_FilterKeepsTrimmedMatches ==
    ~sessionsLoading =>
        IF trim(projectQuery) = <<>> THEN filteredProjectTree = projectTree
        ELSE IsPruned(trim(projectQuery))

\* the query "a/b" hits a/B by its path alone; a is kept as its ancestor,
\* its child a/a and the root B are dropped
C19_Witness ==
    /\ ~sessionsLoading
    /\ projectQuery = <<"a", "/", "b">>
    /\ \E i \in 1..Len(projectTree) : projectTree[i].path = <<"B">>
    /\ \E n \in AllNodes(projectTree) : n.path = <<"a", "/", "a">>
    /\ Len(filteredProjectTree) = 1
    /\ filteredProjectTree[1].path = <<"a">>
    /\ Len(filteredProjectTree[1].children) = 1
    /\ filteredProjectTree[1].children[1].path = <<"a", "/", "B">>

\* C20: whatever queries have been filtered, the source tree is the tree
\* buildProjectTree built from the groups.
C20_SourceTreeIntact ==
    ~sessionsLoading => projectTree = buildProjectTree(projectGroups)

\* the query "B" has dropped the child a/a from the result, and the source
\* node a still has both its children
C20_Witness ==
    /\ ~sessionsLoading
    /\ projectQuery = <<"B">>
    /\ Len(projectTree) = 1 /\ Len(filteredProjectTree) = 1
    /\ projectTree[1].path = <<"a">>
    /\ Len(projectTree[1].children) = 2
    /\ Len(filteredProjectTree[1].children) = 1

(***************************************************************************)
(* Project scoping on the home page                                        *)
(***************************************************************************)
Range(list) == {list[i] : i \in 1..Len(list)}

IsSelected == selectedProjectPath # NoPath

\* the label is the path, or the path followed by a separator and more
LabelUnder(label, path) ==
    \/ label = path
    \/ /\ Len(label) > Len(path)
       /\ \A k \in 1..Len(path) : label[k] = path[k]
       /\ label[Len(path) + 1] = "/"

\* C21: with a project selected, a session is among the scoped sessions exactly
\* when its label is the selected path or starts with the path and a "/"; the
\* slug plays no part, and a label that only shares the characters of the path
\* is left out.
C21_ScopedByLabelPrefix ==
    IsSelected =>
        \A i \in 1..Len(activeSessions) :
            activeSessions[i] \in Range(scopedSessions)
                <=> LabelUnder(activeSessions[i].project, selectedProjectPath)

\* a/B is selected: the session of a/B is listed and the session of a/Ba is not
C21_Witness ==
    /\ selectedProjectPath = <<"a", "/", "B">>
    /\ \E i \in 1..Len(activeSessions) :
        /\ activeSessions[i].project = <<"a", "/", "B", "a">>
        /\ activeSessions[i] \notin Range(scopedSessions)
    /\ \E i \in 1..Len(scopedSessions) : scopedSessions[i].project = <<"a", "/", "B">>

(***************************************************************************)
(* Grouping and sorting of the session listings                            *)
(***************************************************************************)
GroupSizes == [g \in 1..Len(projectGroups) |-> Len(projectGroups[g].sessions)]

\* the places of a session in the groups
PlacesOf(session) ==
    {<<g, k>> \in (1..Len(projectGroups)) \X (1..Len(activeSessions)) :
        /\ k <= Len(projectGroups[g].sessions)
        /\ projectGroups[g].sessions[k] = session}

\* C22: the groups partition the active sessions by slug: every session is in
\* exactly one group, the sessions of a group have the slug of the group, no
\* two groups have one slug, the sizes add up to the number of sessions, and
\* latestMtime of a group is the largest mtimeMs of its sessions.
C22_GroupsPartitionBySlug ==
    ~sessionsLoading =>
        /\ \A i \in 1..Len(activeSessions) :
            Cardinality(PlacesOf(activeSessions[i])) = 1
        /\ \A g \in 1..Len(projectGroups) :
            LET group == projectGroups[g]
            IN /\ \A k \in 1..Len(group.sessions) :
                    /\ group.sessions[k].projectSlug = group.projectSlug
                    /\ group.sessions[k].mtimeMs <= group.latestMtime
               /\ \E k \in 1..Len(group.sessions) :
                    group.sessions[k].mtimeMs = group.latestMtime
               /\ \A h \in 1..Len(projectGroups) :
                    projectGroups[h].projectSlug = group.projectSlug => h = g
        /\ SumSeq(GroupSizes) = Len(activeSessions)

\* two groups, one of them with two sessions of which the first listed is the
\* older
C22_Witness ==
    /\ ~sessionsLoading
    /\ Len(activeSessions) = 3 /\ Len(projectGroups) = 2
    /\ \E g \in 1..2 :
        /\ Len(projectGroups[g].sessions) = 2
        /\ \E i, j \in 1..3 :
            /\ i < j
            /\ activeSessions[i].projectSlug = projectGroups[g].projectSlug
            /\ activeSessions[j].projectSlug = projectGroups[g].projectSlug
            /\ activeSessions[i].mtimeMs < activeSessions[j].mtimeMs

Reverse(list) == [i \in 1..Len(list) |-> list[Len(list) + 1 - i]]

\* the sessions handed to sortSessions: those of the selected project, or all
SortInput ==
    IF IsSelected
    THEN SelectSeq(activeSessions,
                   LAMBDA session : LabelUnder(session.project, selectedProjectPath))
    ELSE activeSessions

InOrder(list, sortMode) ==
    \A i, j \in 1..Len(list) :
        i < j =>
            IF sortMode = "oldest" THEN list[i].mtimeMs <= list[j].mtimeMs
            ELSE IF sortMode = "name" THEN localeCompare(list[i].id, list[j].id) <= 0
            ELSE list[i].mtimeMs >= list[j].mtimeMs

NoTies(list) ==
    \A i, j \in 1..Len(list) : list[i].mtimeMs = list[j].mtimeMs => i = j

Sorted ==
    ~sessionsLoading =>
        /\ Len(scopedSessions) = Len(SortInput)
        /\ Range(scopedSessions) = Range(SortInput)
        /\ InOrder(scopedSessions, homeSortMode)
        /\ activeSessions = Active(sessionSource, localState, homeSessions)

OldestReversesRecent ==
    (/\ <<homeSortMode, homeSortMode'>> \in {<<"recent", "oldest">>, <<"oldest", "recent">>}
     /\ NoTies(scopedSessions)
     /\ ~sessionsLoading)
        => scopedSessions' = Reverse(scopedSessions)

\* C23: the sorted sessions are a permutation of the sessions handed in, which
\* are left as they were; they descend by mtimeMs for 'recent', ascend by
\* mtimeMs for 'oldest' and ascend by id, in the order of the locale, for
\* 'name'; and when no two have one mtimeMs, changing between 'recent' and
\* 'oldest' reverses the order.
C23_SortedPermutation == []Sorted /\ [][OldestReversesRecent]_vars

\* three sessions without ties, handed in neither ascending nor descending, are
\* shown oldest first
C23_Witness ==
    /\ ~sessionsLoading /\ homeSortMode = "oldest"
    /\ Len(scopedSessions) = 3 /\ NoTies(scopedSessions)
    /\ activeSessions[1].mtimeMs = 2 /\ activeSessions[2].mtimeMs = 1
    /\ scopedSessions[1].mtimeMs = 1 /\ scopedSessions[3].mtimeMs = 3

(***************************************************************************)
(* The file-history route of the server                                    *)
(***************************************************************************)
IdCharacters == Range(Letters) \cup Range(Capitals) \cup Digits \cup {"-"}

ValidSessionId(str) == str # <<>> /\ Range(str) \subseteq IdCharacters

ValidBackup(str) ==
    /\ str # <<>>
    /\ Range(str) \subseteq IdCharacters \cup {"@", ".", "_"}
    /\ \A i \in 1..(Len(str) - 1) : ~(str[i] = "." /\ str[i + 1] = ".")

\* the path lies in the directory, at any depth
Inside(path, directory) ==
    Len(path) > Len(directory) /\ SubSeq(path, 1, Len(directory)) = directory

SessionsUnder(path) ==
    {i \in 1..Len(activeSessions) : LabelUnder(activeSessions[i].project, path)}

\* C25: the count of every node of the project tree is the number of active
\* sessions in the project of its path, which is at least one.
C25_CountIsScopeSize ==
    \A n \in AllNodes(projectTree) :
        /\ n.sessionsCount = Cardinality(SessionsUnder(n.path))
        /\ SessionsUnder(n.path) # {}

(***************************************************************************)
(* What a diff keeps of its two texts                                      *)
(***************************************************************************)
\* the contents of the diff lines of the types given, in order
ContentsOf(types) ==
    LET chosen == SelectSeq(diff, LAMBDA line : line.type \in types)
    IN [j \in 1..Len(chosen) |-> chosen[j].content]

\* C26: the context and removed lines of a diff are, in order, the lines of the
\* old text, and its context and added lines are the lines of the new text; the
\* diff of a text with itself has context lines only.
C26_DiffKeepsBothTexts ==
    diff # <<>> =>
        /\ ContentsOf({"context", "removed"}) = RawLines(oldText)
        /\ ContentsOf({"context", "added"}) = RawLines(newText)
        /\ oldText = newText => \A j \in 1..Len(diff) : diff[j].type = "context"

\* the old text ends with an empty line that the new text does not have
C26_Witness ==
    /\ oldText = <<Junk, NL>> /\ newText = <<Junk>>
    /\ diff = <<DiffLine("context", <<Junk>>), DiffLine("removed", <<>>)>>

(***************************************************************************)
(* Superseded loads of the session page                                    *)
(***************************************************************************)
LoadNumbers(set) == {load.n : load \in set}

\* a load that was superseded is answered in this step
SupersededAnswered ==
    \E load \in loads : load.ignore /\ load.n \notin LoadNumbers(loads')

LatestShown ==
    (mounted /\ ~pageLoading /\ pageError = Null) =>
        pageSession # Null /\ pageSession.load = started

\* C27: the answer to a superseded load changes neither the session nor the
\* error nor the loading state; and whenever the page is neither loading nor in
\* error, its session is the response to the load started last.
C27_SupersededLoadIgnored ==
    /\ [][SupersededAnswered => UNCHANGED <<pageSession, pageError, pageLoading>>]_vars
    /\ []LatestShown

\* the page shows the response to the second load while the first load, which
\* was superseded, is still to be answered
C27_Witness ==
    /\ mounted /\ ~pageLoading /\ pageError = Null
    /\ pageSession # Null /\ pageSession.load = 2
    /\ \E load \in loads : load.n = 1 /\ load.ignore

(***************************************************************************)
(* Overlapping fetches of one key in the snapshot view                     *)
(***************************************************************************)
FetchKeys == {fetchLog[i].key : i \in 1..Len(fetchLog)}

InFlight(key) == \E call \in calls : key \in call.pending

Completions(key) ==
    {i \in 1..Len(fetchLog) : fetchLog[i].key = key /\ fetchLog[i].event # "start"}

LastCompletion(key) ==
    fetchLog[CHOOSE i \in Completions(key) : \A j \in Completions(key) : j <= i]

LoadingWhileInFlight ==
    \A key \in FetchKeys : InFlight(key) => Get(loadingKeys, key, FALSE)

ErrorOfLastCompletion ==
    \A key \in FetchKeys :
        Completions(key) # {} =>
            /\ LastCompletion(key).event = "ok" => ~Truthy(Get(errorCache, key, ""))
            /\ (LastCompletion(key).event = "fail" /\ ~InFlight(key)) =>
                    Get(errorCache, key, "") = FailedToLoad

\* C28: for every key, the loading state of the key is on while a fetch of the
\* key is in flight, and the error of the key is that of the fetch of the key
\* that completed last: empty after a success, set after a failure.
C28_LoadingAndErrorFollowFetches == LoadingWhileInFlight /\ ErrorOfLastCompletion

(***************************************************************************)
(* The selected project of Home                                            *)
(***************************************************************************)
SelectionHasSessions ==
    IsSelected =>
        \E i \in 1..Len(activeSessions) :
            LabelUnder(activeSessions[i].project, selectedProjectPath)

SourceSwitched == sessionSource' # sessionSource

\* C29: after every handler of Home and the effects that follow it, the
\* selected project path is null or the path of at least one active session's
\* project or of a folder above it; and a step that changes the session source
\* leaves the selection null.
C29_SelectionAmongActiveSessions ==
    /\ []SelectionHasSessions
    /\ [][SourceSwitched => selectedProjectPath' = NoPath]_vars

\* a project of the imported sessions is selected while the sessions on disk
\* have none under that path
C29_Witness ==
    /\ sessionSource = "local" /\ IsSelected
    /\ homeSessions # <<>>
    /\ \A i \in 1..Len(homeSessions) :
            ~LabelUnder(homeSessions[i].project, selectedProjectPath)

(***************************************************************************)
(* The local import store                                                  *)
(***************************************************************************)
LocalIds == {localState.sessions[i].id : i \in 1..Len(localState.sessions)}

IdsAreFileKeys == LocalIds = DOMAIN localState.files

NoSharedId ==
    \A i, j \in 1..Len(localState.sessions) :
        localState.sessions[i].id = localState.sessions[j].id => i = j

\* the listing of an id is the listing of the file kept under that id
ListingOfKeptFile ==
    \A i \in 1..Len(localState.sessions) :
        LET id == localState.sessions[i].id
        IN id \in DOMAIN localState.files =>
                localState.sessions[i] = toLocalSessionListing(localState.files[id])

\* C30: in the import store the ids of the local sessions are the keys of the
\* files map, no two local sessions share an id, and the listing of an id is
\* that of the file kept under it, so that a later import of the id has
\* replaced both.
C30_ImportStoreConsistent == IdsAreFileKeys /\ NoSharedId /\ ListingOfKeptFile

====
